---- MODULE Spec2Model ----
(***************************************************************************)
(* A model of the Python front-ends of cpp_dynamic_calc:                   *)
(*   - the daemon handshake of the QA suite (axiom_qa_test_suite.py),      *)
(*   - its security section (fuzzing, long input) and final report,        *)
(*   - the calculator shell (gui/python/ogulator_gui.py): the UI thread,   *)
(*     the command workers, the build and the install workers.             *)
(* The external engine is a black box: what it returns is drawn from       *)
(* small sets.  prog names the program a behaviour belongs to.             *)
(***************************************************************************)
EXTENDS Integers, Sequences, FiniteSets, TLC

VARIABLES
    prog,            \* "daemon" | "sec" | "gui": the program that is running
    launched,        \* every external process launched so far: [site, sync, timeout]
    results,         \* AxiomQATestSuite.results, flattened: test name -> text (<<>> = not recorded)
    axiom_path,      \* AxiomQATestSuite.axiom_path: "found" or "None"
    \* ---- test_daemon_handshake
    d_pc,            \* position in test_daemon_handshake
    daemon_state,    \* "none" | "running" | "exited" | "terminated"
    daemon_stdin_open, \* the daemon still reads its standard input
    daemon_out,      \* everything this daemon will ever write to its standard output
    out_pos,         \* how much of daemon_out is written to the pipe
    pipe,            \* written by the daemon, not yet read by the test
    stdin_written,   \* what the test wrote to the daemon's standard input
    response,        \* the accumulated buffer
    now,             \* time.time(), in seconds
    start_time,      \* start_time of the read loop
    reads,           \* number of read(1) calls that returned a character
    \* ---- section_4_security_stability and generate_report
    s_pc,            \* position in the security section and the report
    fuzz_i,          \* how many of malicious_inputs have been tried
    crashes,         \* test_fuzzing's counter
    neg_seen,        \* some fuzzing invocation ended with a negative return code
    buf_outcome,     \* how the long-input invocation ended
    total_tests,     \* generate_report's counters and verdict
    passed_tests,
    failed_tests,
    overall_status,
    \* ---- OGULATORCalculatorGUI
    python_repl_mode,   \* self.python_repl_mode
    python_globals,     \* the names bound in self.python_globals by REPL commands
    current_mode,       \* self.current_mode
    engine_available,   \* self.engine_available
    cpp_engine,         \* self.cpp_engine: "None" or "interface"
    available_packages, \* the packages self.available_packages maps to True
    cmds,               \* one entry per command run: its thread, position and what became of it
    ui_queue,           \* callbacks scheduled with root.after(0, ...), oldest first
    status,             \* text of the status label
    progress_running,   \* the progress bar is started
    widget_writes,      \* [widget, thread]: which thread has configured which widget
    build_pc,           \* the build worker: "idle" | "running" | "finished"
    install_pc,         \* the install worker: "idle" | "running" | "finished"
    \* ---- MATLABAlternativeGUI
    workspace_vars,     \* self.workspace_vars, in insertion order: <<[name, value], ...>>
    workspace_tree,     \* the rows of the workspace panel, top to bottom: the names
    command_output,     \* what the last operation added to the command window
    \* ---- the test scripts: probing, binary identity, performance
    t_pc,               \* position in the test script that runs
    files,              \* the paths that exist on the file system
    executable_path,    \* what find_cpp_executable returned
    help_out,           \* how the invocation a check looks at ended and what it wrote
    checks_made,        \* the checks of core_architecture_test made after the first
    exit_code,          \* the exit code of core_architecture_test, -1 while it runs
    score,              \* core_architecture_test: passed + enterprise_passed
    lat_i,              \* test_latency_ping: invocations made
    thr_i,              \* test_throughput_flood: invocations made
    leak,               \* how much the resident set grows with each invocation, in MB
    rss,                \* the resident set size of the test process, in MB
    initial_memory,     \* test_throughput_flood's initial_memory, in MB
    growth              \* how much the resident set grew over each test's invocations

matlabVars == <<workspace_vars, workspace_tree, command_output>>

scriptVars == <<help_out, checks_made, exit_code, score>>

perfVars == <<lat_i, thr_i, leak, rss, initial_memory, growth>>

testVars == <<t_pc, files, executable_path, scriptVars, perfVars>>

vars == <<prog, matlabVars, testVars, launched, results, axiom_path, d_pc, daemon_state, daemon_stdin_open,
          daemon_out, out_pos, pipe, stdin_written, response, now, start_time, reads,
          s_pc, fuzz_i, crashes, neg_seen, buf_outcome, total_tests, passed_tests,
          failed_tests, overall_status,
          python_repl_mode, python_globals, current_mode, engine_available, cpp_engine,
          available_packages, cmds, ui_queue, status, progress_running, widget_writes,
          build_pc, install_pc>>

daemonVars == <<d_pc, daemon_state, daemon_stdin_open, daemon_out, out_pos, pipe,
                stdin_written, response, now, start_time, reads>>

secVars == <<s_pc, fuzz_i, crashes, neg_seen, buf_outcome, total_tests, passed_tests,
             failed_tests, overall_status>>

guiVars == <<python_repl_mode, python_globals, current_mode, engine_available, cpp_engine,
             available_packages, cmds, ui_queue, status, progress_running, widget_writes,
             build_pc, install_pc>>

qaVars == <<results, axiom_path>>

(* The parts of the state a program does not use *)

ScriptIdle ==
    /\ help_out = [kind |-> "none", rc |-> 0, stdout |-> <<>>, stderr |-> <<>>]
    /\ checks_made = 0
    /\ exit_code = -1
    /\ score = 0

PerfIdle ==
    /\ lat_i = 0
    /\ thr_i = 0
    /\ leak = 0
    /\ rss = 0
    /\ initial_memory = 0
    /\ growth = [latency |-> 0, throughput |-> 0]

TestIdle ==
    /\ t_pc = "idle"
    /\ files = {}
    /\ executable_path = "None"
    /\ ScriptIdle
    /\ PerfIdle

MatlabIdle ==
    /\ workspace_vars = <<>>
    /\ workspace_tree = <<>>
    /\ command_output = <<>>

GuiIdle ==
    /\ python_repl_mode = FALSE
    /\ python_globals = {}
    /\ current_mode = "ALGEBRAIC"
    /\ engine_available = FALSE
    /\ cpp_engine = "None"
    /\ available_packages = {}
    /\ cmds = <<>>
    /\ ui_queue = <<>>
    /\ status = "Ready"
    /\ progress_running = FALSE
    /\ widget_writes = {}
    /\ build_pc = "idle"
    /\ install_pc = "idle"


SecIdle ==
    /\ s_pc = "idle"
    /\ fuzz_i = 0
    /\ crashes = 0
    /\ neg_seen = FALSE
    /\ buf_outcome = [kind |-> "none", rc |-> 0]
    /\ total_tests = 0
    /\ passed_tests = 0
    /\ failed_tests = 0
    /\ overall_status = "UNKNOWN"

DaemonIdle ==
    /\ d_pc = "idle"
    /\ daemon_state = "none"
    /\ daemon_stdin_open = FALSE
    /\ daemon_out = <<>>
    /\ out_pos = 0
    /\ pipe = <<>>
    /\ stdin_written = <<>>
    /\ response = <<>>
    /\ now = 0
    /\ start_time = 0
    /\ reads = 0

-----------------------------------------------------------------------------
(* Bounds of the model *)

\* the clock stops advancing here (only a read that blocks for ever gets this far)
MaxTime == 9

-----------------------------------------------------------------------------
(* Text: a text is a sequence of one-character strings (daemon protocol) or *)
(* of words (result texts).  Contains is Python's `needle in text`.         *)

Contains(text, needle) ==
    \E i \in 1..(Len(text) - Len(needle) + 1) :
        SubSeq(text, i, i + Len(needle) - 1) = needle

EndsWith(text, needle) ==
    /\ Len(text) >= Len(needle)
    /\ SubSeq(text, Len(text) - Len(needle) + 1, Len(text)) = needle

\* the sentinel "__END_OF_RESPONSE__" of the read loop
Sentinel ==
    <<"_", "_", "E", "N", "D", "_", "O", "F", "_",
      "R", "E", "S", "P", "O", "N", "S", "E", "_", "_">>

\* the characters between the quotes of the literal  "2+2\\n"
TestCommandSource == <<"2", "+", "2", "\\", "\\", "n">>

\* Python's decoding of the escape sequences of a string literal
RECURSIVE DecodeEscapes(_)
DecodeEscapes(src) ==
    IF src = <<>> THEN <<>>
    ELSE IF src[1] = "\\" /\ Len(src) >= 2
         THEN (CASE src[2] = "n"  -> <<"\n">>
                 [] src[2] = "\\" -> <<"\\">>
                 [] src[2] = "t"  -> <<"\t">>
                 [] OTHER         -> <<"\\", src[2]>>)
              \o DecodeEscapes(SubSeq(src, 3, Len(src)))
         ELSE <<src[1]>> \o DecodeEscapes(Tail(src))

test_command == DecodeEscapes(TestCommandSource)

-----------------------------------------------------------------------------
(* Result texts, as words *)

PASS == <<"PASS">>
FAIL == <<"FAIL">>
FailWith(e) == <<"FAIL", "-", e>>
FailDaemonCrash == <<"FAIL", "-", "Daemon", "crash">>
FailProtocol == <<"FAIL", "-", "Protocol", "violation">>
NotRecorded == <<>>

\* str(e) of the exceptions the handlers catch
ExcMsgs == {"OSError"}

TestNames == {"binary_identity", "daemon_handshake", "namespace_purity",
              "latency", "throughput", "concurrency",
              "symbolic", "linear_algebra", "precision",
              "fuzzing", "buffer_overflow"}

NoResults == [t \in TestNames |-> NotRecorded]

RecordIn(res, name, text) == [res EXCEPT ![name] = text]

\* self.results[section][name] = text
Record(name, text) == RecordIn(results, name, text)

-----------------------------------------------------------------------------
(* External processes *)

\* the thread a launch is made on: "main" the only thread of a test script,
\* "ui" the thread of the shell's main loop, "worker" a threading.Thread
On(thread, l) ==
    [site |-> l.site, sync |-> l.sync, timeout |-> l.timeout, thread |-> thread]

\* subprocess.Popen: returns at once, no timeout
PopenLaunch(site) == [site |-> site, sync |-> FALSE, timeout |-> 0]
\* (mutant) a launch with subprocess.run and no timeout argument
RunLaunchNoTimeout(site, t) == [site |-> site, sync |-> TRUE, timeout |-> 0]

\* subprocess.run(..., timeout=t): returns when the process has ended or was killed at t
RunLaunch(site, t) == [site |-> site, sync |-> TRUE, timeout |-> t]

-----------------------------------------------------------------------------
(* test_daemon_handshake *)

StartupDelay == 2
ReadTimeout == 5

\* a byte that is not valid in the encoding of the text-mode pipe
Undecodable == "0xff"

\* What a daemon may write, whatever it was sent: nothing, a complete answer
\* followed by more output, an answer cut short, output that cannot be decoded
DaemonOutputs ==
    { <<>>,
      <<"4", "\n">> \o Sentinel \o <<"\n", "x">>,
      <<"4", "\n">> \o SubSeq(Sentinel, 1, 9),
      <<"4", Undecodable>> }

InitDaemon ==
    /\ prog = "daemon"
    /\ launched = {}
    /\ TestIdle
    /\ MatlabIdle
    /\ axiom_path = "found"
    /\ results \in {RecordIn(NoResults, "binary_identity", r) : r \in {PASS, FAIL}}
    /\ d_pc = "popen"
    /\ daemon_state = "none"
    /\ daemon_stdin_open = FALSE
    /\ daemon_out \in DaemonOutputs
    /\ out_pos = 0
    /\ pipe = <<>>
    /\ stdin_written = <<>>
    /\ response = <<>>
    /\ now = 0
    /\ start_time = 0
    /\ reads = 0
    /\ SecIdle
    /\ GuiIdle

\* the except clause of test_daemon_handshake
HandshakeExcept(e) ==
    /\ results' = Record("daemon_handshake", FailWith(e))
    /\ d_pc' = "done"

\* subprocess.Popen([axiom_path, "--daemon"], ...)
Popen ==
    /\ prog = "daemon" /\ d_pc = "popen"
    /\ \/ /\ daemon_state' = "running"
          /\ daemon_stdin_open' = TRUE
          /\ launched' = launched \cup {On("main", PopenLaunch("daemon_handshake"))}
          /\ d_pc' = "startup_sleep"
          /\ UNCHANGED results
       \/ /\ \E e \in ExcMsgs : HandshakeExcept(e)
          /\ UNCHANGED <<daemon_state, daemon_stdin_open, launched>>
    /\ UNCHANGED <<guiVars, secVars, prog, testVars, matlabVars, axiom_path, daemon_out, out_pos, pipe, stdin_written,
                   response, now, start_time, reads>>

\* time.sleep(2)
StartupSleep ==
    /\ prog = "daemon" /\ d_pc = "startup_sleep"
    /\ now' = now + StartupDelay
    /\ d_pc' = "poll"
    /\ UNCHANGED <<guiVars, secVars, prog, testVars, matlabVars, launched, results, axiom_path, daemon_state, daemon_stdin_open,
                   daemon_out, out_pos, pipe, stdin_written, response, start_time, reads>>

\* if daemon_process.poll() is not None: ... return
Poll ==
    /\ prog = "daemon" /\ d_pc = "poll"
    /\ IF daemon_state = "exited"
       THEN /\ results' = Record("daemon_handshake", FailDaemonCrash)
            /\ d_pc' = "done"
       ELSE /\ d_pc' = "write"
            /\ UNCHANGED results
    /\ UNCHANGED <<guiVars, secVars, prog, testVars, matlabVars, launched, axiom_path, daemon_state, daemon_stdin_open, daemon_out,
                   out_pos, pipe, stdin_written, response, now, start_time, reads>>

\* stdin.write(test_command); stdin.flush(); response = ""; start_time = time.time()
\* the write raises when nobody reads the pipe any more
WriteCommand ==
    /\ prog = "daemon" /\ d_pc = "write"
    /\ IF daemon_state = "running" /\ daemon_stdin_open
       THEN /\ stdin_written' = stdin_written \o test_command
            /\ response' = <<>>
            /\ start_time' = now
            /\ d_pc' = "loop"
            /\ UNCHANGED results
       ELSE /\ \E e \in ExcMsgs : HandshakeExcept(e)
            /\ UNCHANGED <<stdin_written, response, start_time>>
    /\ UNCHANGED <<guiVars, secVars, prog, testVars, matlabVars, launched, axiom_path, daemon_state, daemon_stdin_open, daemon_out,
                   out_pos, pipe, now, reads>>

\* while time.time() - start_time < 5:
LoopTest ==
    /\ prog = "daemon" /\ d_pc = "loop"
    /\ d_pc' = IF now - start_time < ReadTimeout THEN "read" ELSE "terminate"
    /\ UNCHANGED <<guiVars, secVars, prog, testVars, matlabVars, launched, results, axiom_path, daemon_state, daemon_stdin_open,
                   daemon_out, out_pos, pipe, stdin_written, response, now, start_time,
                   reads>>

\* stdout.readable() is true of a pipe opened for reading
Readable == TRUE

\* (mutant) the break compares the whole buffer with the sentinel
SentinelSeenWholeBuffer(buffer) == buffer = Sentinel

\* the break of the read loop: if "__END_OF_RESPONSE__" in response
SentinelSeen(buffer) == Contains(buffer, Sentinel)

\* char = stdout.read(1): returns a character when the pipe holds one, "" at end of
\* file, and does not return while the pipe is empty and the daemon has it open
ReadReturns == pipe # <<>> \/ daemon_state # "running"

\* the text layer decodes the bytes it takes from the pipe: UnicodeDecodeError
\* when one of them is not valid
ReadRaises == \E k \in 1..Len(pipe) : pipe[k] = Undecodable

ReadChar ==
    /\ prog = "daemon" /\ d_pc = "read"
    /\ Readable
    /\ ReadReturns
    /\ IF ReadRaises
       THEN /\ HandshakeExcept("UnicodeDecodeError")
            /\ pipe' = <<>>
            /\ UNCHANGED <<response, reads>>
       ELSE IF pipe # <<>>
       THEN /\ response' = Append(response, Head(pipe))
            /\ pipe' = Tail(pipe)
            /\ reads' = reads + 1
            /\ d_pc' = IF SentinelSeen(response') THEN "terminate" ELSE "loop_sleep"
            /\ UNCHANGED results
       ELSE /\ d_pc' = "loop_sleep"
            /\ UNCHANGED <<response, pipe, reads, results>>
    /\ UNCHANGED <<guiVars, secVars, prog, testVars, matlabVars, launched, axiom_path, daemon_state, daemon_stdin_open,
                   daemon_out, out_pos, stdin_written, now, start_time>>

\* time passes while read(1) does not return
BlockedInRead == d_pc = "read" /\ ~ReadReturns

ReadBlocks ==
    /\ prog = "daemon"
    /\ BlockedInRead
    /\ now < MaxTime
    /\ now' = now + 1
    /\ UNCHANGED <<guiVars, secVars, prog, testVars, matlabVars, launched, results, axiom_path, d_pc, daemon_state,
                   daemon_stdin_open, daemon_out, out_pos, pipe, stdin_written, response,
                   start_time, reads>>

\* time.sleep(0.01): the clock, in seconds, stays or moves on to the next second
LoopSleep ==
    /\ prog = "daemon" /\ d_pc = "loop_sleep"
    /\ \E dt \in {0, 1} :
         /\ now + dt <= MaxTime
         /\ now' = now + dt
    /\ d_pc' = "loop"
    /\ UNCHANGED <<guiVars, secVars, prog, testVars, matlabVars, launched, results, axiom_path, daemon_state, daemon_stdin_open,
                   daemon_out, out_pos, pipe, stdin_written, response, start_time, reads>>

\* the verdict after the loop
HandshakeVerdict(buffer) == IF Contains(buffer, Sentinel) THEN PASS ELSE FailProtocol

\* daemon_process.terminate() and the verdict
Terminate ==
    /\ prog = "daemon" /\ d_pc = "terminate"
    /\ daemon_state' = IF daemon_state = "running" THEN "terminated" ELSE daemon_state
    /\ results' = Record("daemon_handshake", HandshakeVerdict(response))
    /\ d_pc' = "done"
    /\ UNCHANGED <<guiVars, secVars, prog, testVars, matlabVars, launched, axiom_path, daemon_stdin_open, daemon_out, out_pos,
                   pipe, stdin_written, response, now, start_time, reads>>

(* The daemon, a process of its own *)

DaemonWrites ==
    /\ prog = "daemon"
    /\ daemon_state = "running"
    /\ out_pos < Len(daemon_out)
    /\ out_pos' = out_pos + 1
    /\ pipe' = Append(pipe, daemon_out[out_pos + 1])
    /\ UNCHANGED <<guiVars, secVars, prog, testVars, matlabVars, launched, results, axiom_path, d_pc, daemon_state,
                   daemon_stdin_open, daemon_out, stdin_written, response, now,
                   start_time, reads>>

DaemonClosesStdin ==
    /\ prog = "daemon"
    /\ daemon_state = "running"
    /\ daemon_stdin_open
    /\ daemon_stdin_open' = FALSE
    /\ UNCHANGED <<guiVars, secVars, prog, testVars, matlabVars, launched, results, axiom_path, d_pc, daemon_state, daemon_out,
                   out_pos, pipe, stdin_written, response, now, start_time, reads>>

DaemonExits ==
    /\ prog = "daemon"
    /\ daemon_state = "running"
    /\ daemon_state' = "exited"
    /\ daemon_stdin_open' = FALSE
    /\ UNCHANGED <<guiVars, secVars, prog, testVars, matlabVars, launched, results, axiom_path, d_pc, daemon_out, out_pos, pipe,
                   stdin_written, response, now, start_time, reads>>

NextDaemon ==
    \/ Popen
    \/ StartupSleep
    \/ Poll
    \/ WriteCommand
    \/ LoopTest
    \/ ReadChar
    \/ ReadBlocks
    \/ LoopSleep
    \/ Terminate
    \/ DaemonWrites
    \/ DaemonClosesStdin
    \/ DaemonExits

SpecDaemon == InitDaemon /\ [][NextDaemon]_vars

-----------------------------------------------------------------------------
(* How a subprocess.run(..., timeout=t) ends *)

ReturnCodes == {-11, 0, 1}

RunOutcomes ==
    [kind : {"exit"}, rc : ReturnCodes]
      \cup {[kind |-> "timeout", rc |-> 0], [kind |-> "exception", rc |-> 0]}

NoOutcome == [kind |-> "none", rc |-> 0]

-----------------------------------------------------------------------------
(* section_4_security_stability: test_fuzzing, test_buffer_overflow *)

malicious_inputs ==
    <<"hgfdjhgf", "1/0", "sqrt(-1)", "integrate(x, [[1,2]", ")*1000", "x*10000",
      "\\x00\\x01\\x02", "../../../etc/passwd", "; rm -rf /", "' OR '1'='1">>

FuzzTimeout == 5
BufferTimeout == 10

\* What sections 1 to 3 leave in results when no executable was found:
\* section 1 returns after its first check, the checks that test axiom_path
\* record nothing, test_precision_check fails in subprocess.run
ResultsNoExecutable ==
    [NoResults EXCEPT !["binary_identity"] = <<"FAIL", "-", "Executable", "not", "found">>,
                      !["concurrency"] = <<"NOT_IMPLEMENTED">>,
                      !["precision"] = FailWith("OSError")]

\* Some of what sections 1 to 3 leave in results when the executable was found
ResultsWithExecutable ==
    { [NoResults EXCEPT !["binary_identity"] = PASS,
                        !["daemon_handshake"] = d,
                        !["namespace_purity"] = PASS,
                        !["latency"] = <<"PASS", "-", "F1", "SPEED">>,
                        !["throughput"] = t,
                        !["concurrency"] = <<"NOT_IMPLEMENTED">>,
                        !["symbolic"] = <<"PARTIAL">>,
                        !["linear_algebra"] = PASS,
                        !["precision"] = PASS]
      : d \in {PASS, FailProtocol}, t \in {PASS, <<"WARN", "-", "Memory", "growth">>} }

InitSec ==
    /\ prog = "sec"
    /\ launched = {}
    /\ TestIdle
    /\ MatlabIdle
    /\ \/ axiom_path = "None" /\ results = ResultsNoExecutable
       \/ axiom_path = "found" /\ results \in ResultsWithExecutable
    /\ DaemonIdle
    /\ GuiIdle
    /\ s_pc = "fuzz"
    /\ fuzz_i = 0
    /\ crashes = 0
    /\ neg_seen = FALSE
    /\ buf_outcome = NoOutcome
    /\ total_tests = 0
    /\ passed_tests = 0
    /\ failed_tests = 0
    /\ overall_status = "UNKNOWN"

\* (mutant) every non-zero return code counts as a crash
IsCrashNonZero(rc) == rc # 0

\* if result.returncode < 0:  # Negative means signal (crash)
IsCrash(rc) == rc < 0

\* test_fuzzing without an executable: returns, nothing recorded
FuzzNoExecutable ==
    /\ prog = "sec" /\ s_pc = "fuzz"
    /\ axiom_path = "None"
    /\ s_pc' = "buffer"
    /\ UNCHANGED <<guiVars, prog, testVars, matlabVars, launched, results, axiom_path, daemonVars, fuzz_i, crashes,
                   neg_seen, buf_outcome, total_tests, passed_tests, failed_tests,
                   overall_status>>

\* one turn of `for malicious_input in malicious_inputs`
FuzzInput ==
    /\ prog = "sec" /\ s_pc = "fuzz"
    /\ axiom_path # "None"
    /\ fuzz_i < Len(malicious_inputs)
    /\ \E o \in RunOutcomes :
         /\ crashes' = IF o.kind = "exit" /\ IsCrash(o.rc) THEN crashes + 1 ELSE crashes
         /\ neg_seen' = (neg_seen \/ (o.kind = "exit" /\ o.rc < 0))
    /\ fuzz_i' = fuzz_i + 1
    /\ launched' = launched \cup {On("main", RunLaunch("fuzzing", FuzzTimeout))}
    /\ UNCHANGED <<guiVars, prog, testVars, matlabVars, results, axiom_path, daemonVars, s_pc, buf_outcome, total_tests,
                   passed_tests, failed_tests, overall_status>>

\* after the loop: if crashes == 0: PASS else FAIL - n crashes
FuzzVerdict(n) == IF n = 0 THEN PASS ELSE <<"FAIL", "-", ToString(n), "crashes">>

FuzzEnd ==
    /\ prog = "sec" /\ s_pc = "fuzz"
    /\ axiom_path # "None"
    /\ fuzz_i = Len(malicious_inputs)
    /\ results' = Record("fuzzing", FuzzVerdict(crashes))
    /\ s_pc' = "buffer"
    /\ UNCHANGED <<guiVars, prog, testVars, matlabVars, launched, axiom_path, daemonVars, fuzz_i, crashes, neg_seen,
                   buf_outcome, total_tests, passed_tests, failed_tests, overall_status>>

\* (mutant) only a zero return code passes
BufferVerdictExitZeroOnly(rc) == IF rc = 0 THEN PASS ELSE <<"FAIL", "-", "Crash">>

\* test_buffer_overflow: what is recorded for each way the invocation ends
BufferVerdictExit(rc) == IF rc >= 0 THEN PASS ELSE <<"FAIL", "-", "Crash">>

BufferVerdict(o) ==
    CASE o.kind = "exit"      -> BufferVerdictExit(o.rc)
      [] o.kind = "timeout"   -> <<"PASS", "-", "Timeout">>
      [] o.kind = "exception" -> FailWith("OSError")

BufferNoExecutable ==
    /\ prog = "sec" /\ s_pc = "buffer"
    /\ axiom_path = "None"
    /\ s_pc' = "report"
    /\ UNCHANGED <<guiVars, prog, testVars, matlabVars, launched, results, axiom_path, daemonVars, fuzz_i, crashes,
                   neg_seen, buf_outcome, total_tests, passed_tests, failed_tests,
                   overall_status>>

BufferOverflow ==
    /\ prog = "sec" /\ s_pc = "buffer"
    /\ axiom_path # "None"
    /\ \E o \in RunOutcomes :
         /\ buf_outcome' = o
         /\ results' = Record("buffer_overflow", BufferVerdict(o))
    /\ launched' = launched \cup {On("main", RunLaunch("buffer_overflow", BufferTimeout))}
    /\ s_pc' = "report"
    /\ UNCHANGED <<guiVars, prog, testVars, matlabVars, axiom_path, daemonVars, fuzz_i, crashes, neg_seen, total_tests,
                   passed_tests, failed_tests, overall_status>>

(* generate_report *)

\* if "PASS" in result / elif "FAIL" in result
CountedPassed(text) == Contains(text, <<"PASS">>)
CountedFailed(text) == ~CountedPassed(text) /\ Contains(text, <<"FAIL">>)

Recorded(res) == {t \in TestNames : res[t] # NotRecorded}

\* (mutant) the thresholds have to be exceeded
OverallStatusAbove(passed, total) ==
    LET rate_gt(p) == total > 0 /\ passed * 100 > p * total
    IN  IF rate_gt(80) THEN "SUCCESS"
        ELSE IF rate_gt(60) THEN "PARTIAL SUCCESS"
        ELSE "FAILURE"

\* pass_rate = (passed / total * 100) if total > 0 else 0, against 80 and 60
OverallStatus(passed, total) ==
    LET rate_ge(p) == total > 0 /\ passed * 100 >= p * total
    IN  IF rate_ge(80) THEN "SUCCESS"
        ELSE IF rate_ge(60) THEN "PARTIAL SUCCESS"
        ELSE "FAILURE"

GenerateReport ==
    /\ prog \in {"sec", "report"} /\ s_pc = "report"
    /\ total_tests' = Cardinality(Recorded(results))
    /\ passed_tests' = Cardinality({t \in Recorded(results) : CountedPassed(results[t])})
    /\ failed_tests' = Cardinality({t \in Recorded(results) : CountedFailed(results[t])})
    /\ overall_status' = OverallStatus(passed_tests', total_tests')
    /\ s_pc' = "done"
    /\ UNCHANGED <<guiVars, prog, testVars, matlabVars, launched, results, axiom_path, daemonVars, fuzz_i, crashes,
                   neg_seen, buf_outcome>>

NextSec ==
    \/ FuzzNoExecutable
    \/ FuzzInput
    \/ FuzzEnd
    \/ BufferNoExecutable
    \/ BufferOverflow
    \/ GenerateReport

SpecSec == InitSec /\ [][NextSec]_vars

-----------------------------------------------------------------------------
(* The calculator shell: what a command is and how it evaluates *)

\* The commands a user types here.  Python's own evaluation of each is
\* tabulated below (FallbackEval, PyExec); everything the shell itself does
\* with a command is computed.
Commands ==
    {"mode linear", "PY", "exit(0)", "2+3", "sqrt(16)", "''"}

\* The commands typed when the shell is used one command at a time
SeqCommands ==
    {"python", "PY", "repl", "exit()", "quit()", "exit", "QUIT", "exit(0)", "x = 10",
     "x * 2", "2+3", "1/0", "help"}
      \cup {"sqrt(16)", "abs.__self__.exit()"}
      \cup {"2**3", "2.5+1", "sum([1,2])"}
      \cup {"mode " \o a : a \in {"linear", "stats", "foo", "LINEAR", ""}}

\* (mutant) the command is compared as typed
NoLower(c) == c

\* command.lower()
Lower(c) ==
    CASE c = "PY"   -> "py"
      [] c = "QUIT" -> "quit"
      [] OTHER      -> c

\* the arguments of the 'mode ...' commands typed here: the twelve names and
\* three that are not names
ModeNames ==
    {"algebraic", "linear", "stats", "symbolic", "plot", "units", "python",
     "numpy", "scipy", "matplotlib", "pandas", "sympy"}

ModeArguments == ModeNames \cup {"foo", "LINEAR", ""}

\* command.lower().startswith('mode ')
StartsWithMode(c) == \E a \in ModeArguments : c = "mode " \o a

\* command.split(' ', 1)[1]
ModeArgument(c) ==
    IF StartsWithMode(c) THEN CHOOSE a \in ModeArguments : c = "mode " \o a ELSE ""

\* the keys and values of mode_map
mode_map ==
    [m \in {"algebraic", "linear", "stats", "symbolic", "plot", "units", "python",
            "numpy", "scipy", "matplotlib", "pandas", "sympy"} |->
       CASE m = "algebraic"  -> "ALGEBRAIC"
         [] m = "linear"     -> "LINEAR SYSTEM"
         [] m = "stats"      -> "STATISTICS"
         [] m = "symbolic"   -> "SYMBOLIC"
         [] m = "plot"       -> "PLOTTING"
         [] m = "units"      -> "UNITS"
         [] m = "python"     -> "PYTHON"
         [] m = "numpy"      -> "NUMPY"
         [] m = "scipy"      -> "SCIPY"
         [] m = "matplotlib" -> "MATPLOTLIB"
         [] m = "pandas"     -> "PANDAS"
         [] m = "sympy"      -> "SYMPY"]

\* the lexical classes of a command's characters, white space dropped:
\* "d" a run of digits, the operator characters, the parentheses, "x" anything else
Lex(c) ==
    CASE c = "2+3" -> <<"d", "+", "d">>
      [] c = "1/0" -> <<"d", "/", "d">>
      [] c = "2**3" -> <<"d", "*", "*", "d">>
      [] c = "2.5+1" -> <<"d", "x", "d", "+", "d">>
      [] OTHER     -> <<"x">>

ArithOps == {"+", "-", "*", "/"}

\* (mutant) no command is taken for simple arithmetic
is_simple_arithmetic_never(c) == FALSE

\* is_simple_arithmetic: the four patterns of simple_patterns
is_simple_arithmetic(c) ==
    LET k == Lex(c) IN
    \/ Len(k) = 3 /\ k[1] = "d" /\ k[2] \in ArithOps /\ k[3] = "d"
    \/ /\ Len(k) = 7
       /\ k[1] = "(" /\ k[2] = "d" /\ k[3] \in ArithOps /\ k[4] = "d" /\ k[5] = ")"
       /\ k[6] \in ArithOps /\ k[7] = "d"
    \/ Len(k) = 4 /\ k[1] = "d" /\ k[2] = "*" /\ k[3] = "*" /\ k[4] = "d"
    \/ /\ Len(k) = 5
       /\ k[1] = "d" /\ k[2] \in ArithOps /\ k[3] = "d" /\ k[4] \in ArithOps /\ k[5] = "d"

\* eval(command, safe_dict) raises SystemExit: safe_dict holds the built-in
\* function abs, abs.__self__ is the builtins module, and its exit() raises
FallbackExits(c) == c = "abs.__self__.exit()"

\* eval(command, safe_dict) of python_math_fallback, then str(result):
\* safe_dict has no builtins, the math names, and numpy's sum only with numpy
FallbackEval(c, pkgs) ==
    CASE c = "2+3"        -> [ok |-> TRUE, text |-> "5"]
      [] c = "2**3"       -> [ok |-> TRUE, text |-> "8"]
      [] c = "2.5+1"      -> [ok |-> TRUE, text |-> "3.5"]
      [] c = "sqrt(16)"   -> [ok |-> TRUE, text |-> "4.0"]
      [] c = "''"         -> [ok |-> TRUE, text |-> ""]
      [] c = "sum([1,2])" -> IF "numpy" \in pkgs THEN [ok |-> TRUE, text |-> "3"]
                             ELSE [ok |-> FALSE, text |-> "name 'sum' is not defined"]
      [] c = "1/0"        -> [ok |-> FALSE, text |-> "division by zero"]
      [] OTHER            -> [ok |-> FALSE, text |-> "invalid"]

\* eval, then exec on SyntaxError, of execute_python_command with the builtins:
\* "value" an expression's value as text, "stmt" an executed statement and the
\* names it binds, "exception" a raised Exception, "exit" a raised SystemExit
PyExec(c, globals) ==
    CASE c = "2+3"        -> [kind |-> "value", text |-> "5", binds |-> {}]
      [] c = "2**3"       -> [kind |-> "value", text |-> "8", binds |-> {}]
      [] c = "2.5+1"      -> [kind |-> "value", text |-> "3.5", binds |-> {}]
      [] c = "sqrt(16)"   -> [kind |-> "value", text |-> "4.0", binds |-> {}]
      [] c = "''"         -> [kind |-> "value", text |-> "", binds |-> {}]
      [] c = "sum([1,2])" -> [kind |-> "value", text |-> "3", binds |-> {}]
      [] c = "help"       -> [kind |-> "value", text |-> "Type help()", binds |-> {}]
      [] c = "x = 10"     -> [kind |-> "stmt", text |-> "", binds |-> {"x"}]
      [] c = "x * 2"      -> IF "x" \in globals
                             THEN [kind |-> "value", text |-> "20", binds |-> {}]
                             ELSE [kind |-> "exception", text |-> "name 'x' is not defined",
                                   binds |-> {}]
      [] c = "exit(0)"    -> [kind |-> "exit", text |-> "", binds |-> {}]
      [] c = "abs.__self__.exit()" -> [kind |-> "exit", text |-> "", binds |-> {}]
      [] c = "1/0"        -> [kind |-> "exception", text |-> "division by zero", binds |-> {}]
      [] OTHER            -> [kind |-> "exception", text |-> "invalid syntax", binds |-> {}]

\* the result dictionaries: 'success', 'result', 'error' and the keys set to True
Res(success, text, error, flags) ==
    [success |-> success, text |-> text, error |-> error, flags |-> flags]

NoRes == Res(FALSE, "", "", {})

\* python_math_fallback
python_math_fallback(c) ==
    LET v == FallbackEval(c, available_packages) IN
    IF v.ok THEN Res(TRUE, v.text, "", {"fallback"})
    ELSE Res(FALSE, "", v.text, {})

\* How the engine process ends
EngineOutcomes == {"ok", "nonzero", "timeout", "exception"}

EngineTimeout == 3

\* CppEngineInterface.execute_command, for an executable path that is set
cpp_execute_command(eo) ==
    CASE eo = "ok" ->
           Res(TRUE, "engine", "", {"execution_time", "senna_speed", "f1_speed"})
      [] OTHER -> Res(FALSE, "", "engine error", {"fallback_needed"})

\* What running a command comes to, before anything is scheduled:
\*   escapes: an exception left execute_command_thread; result: the dictionary;
\*   repl, globals, mode: the shell's state afterwards; mode_label: the mode
\*   label was configured; help: show_help was scheduled; engine: "none" (no
\*   arithmetic done), "skipped", "unavailable", "ok", "failed"; fb: the last
\*   python_math_fallback call, "not_called", "ok", "failed", "raised" (it did
\*   not return), and its text
Outcome(escapes, result, repl, globals, mode, label, help, engine, fb, fbtext) ==
    [escapes |-> escapes, result |-> result, repl |-> repl, globals |-> globals,
     mode |-> mode, mode_label |-> label, help |-> help, engine |-> engine,
     fb |-> fb, fb_text |-> fbtext]

Plain(result) ==
    Outcome(FALSE, result, python_repl_mode, python_globals, current_mode, FALSE, FALSE,
            "none", "not_called", "")

FbState(r) == IF r.success THEN "ok" ELSE "failed"

ExitCommands == {"exit()", "quit()", "exit", "quit"}

\* (mutant) leaving the REPL mode empties python_globals
execute_python_command_forgets(c) ==
    IF Lower(c) \in ExitCommands
    THEN [Plain(Res(TRUE, "=== Exited Python REPL ===", "", {"mode_change"}))
            EXCEPT !.repl = FALSE, !.globals = {}]
    ELSE LET v == PyExec(c, python_globals) IN
         CASE v.kind \in {"value", "stmt"} ->
                [Plain(Res(TRUE, v.text, "", {"is_python"}))
                   EXCEPT !.globals = python_globals \cup v.binds]
           [] v.kind = "exception" -> Plain(Res(FALSE, "", v.text, {"is_python"}))
           [] OTHER -> [Plain(NoRes) EXCEPT !.escapes = TRUE]

\* execute_python_command
execute_python_command(c) ==
    IF Lower(c) \in ExitCommands
    THEN [Plain(Res(TRUE, "=== Exited Python REPL ===", "", {"mode_change"}))
            EXCEPT !.repl = FALSE]
    ELSE LET v == PyExec(c, python_globals) IN
         CASE v.kind \in {"value", "stmt"} ->
                [Plain(Res(TRUE, v.text, "", {"is_python"}))
                   EXCEPT !.globals = python_globals \cup v.binds]
           [] v.kind = "exception" -> Plain(Res(FALSE, "", v.text, {"is_python"}))
           [] OTHER -> [Plain(NoRes) EXCEPT !.escapes = TRUE]

\* (mutant) a known mode is acknowledged and current_mode is left as it was
change_mode_command_unset(mode) ==
    IF mode \in DOMAIN mode_map
    THEN [Plain(Res(TRUE, "Switched", "", {})) EXCEPT !.mode_label = TRUE]
    ELSE Plain(Res(FALSE, "", "Unknown mode", {}))

\* change_mode_command
change_mode_command(mode) ==
    IF mode \in DOMAIN mode_map
    THEN [Plain(Res(TRUE, "Switched", "", {}))
            EXCEPT !.mode = mode_map[mode], !.mode_label = TRUE]
    ELSE Plain(Res(FALSE, "", "Unknown mode", {}))

\* an arithmetic outcome: the result, what became of the engine, the last fallback call
ArithOutcome(r, engine, fbr) ==
    [Plain(r) EXCEPT !.engine = engine, !.fb = FbState(fbr), !.fb_text = fbr.text]

\* (mutant) with no engine the command fails at once, the fallback is not called
no_pure_python_fallback(c) ==
    [Plain(Res(FALSE, "", "C++ engine not available", {})) EXCEPT !.engine = "unavailable"]

\* the last line of execute_math_command: return self.python_math_fallback(command)
pure_python_fallback(c) ==
    ArithOutcome(python_math_fallback(c), "unavailable", python_math_fallback(c))

\* python_math_fallback is called for the command: for simple arithmetic, with
\* no engine, and after an engine failure
FallbackCalled(c, eo) ==
    \/ is_simple_arithmetic(c)
    \/ ~(engine_available /\ cpp_engine # "None")
    \/ ~cpp_execute_command(eo).success

\* execute_math_command from "Smart fallback" on: a command that is not special;
\* what python_math_fallback does not catch leaves execute_math_command
execute_arithmetic(c, eo) ==
    LET fb == python_math_fallback(c)
        cpp == cpp_execute_command(eo)
    IN  IF FallbackCalled(c, eo) /\ FallbackExits(c)
        THEN [Plain(NoRes) EXCEPT
                !.escapes = TRUE,
                !.engine = IF is_simple_arithmetic(c) THEN "skipped"
                           ELSE IF engine_available /\ cpp_engine # "None" THEN "failed"
                           ELSE "unavailable",
                !.fb = "raised"]
        ELSE
        IF is_simple_arithmetic(c) /\ fb.success
        THEN ArithOutcome([fb EXCEPT !.flags = @ \cup {"fast_eval"}], "skipped", fb)
        ELSE IF engine_available /\ cpp_engine # "None"
             THEN IF cpp.success
                  THEN IF is_simple_arithmetic(c)
                       THEN ArithOutcome(cpp, "ok", fb)
                       ELSE [Plain(cpp) EXCEPT !.engine = "ok"]
                  ELSE IF fb.success
                       THEN ArithOutcome([fb EXCEPT !.flags = @ \cup {"cpp_failed"}],
                                         "failed", fb)
                       ELSE ArithOutcome(cpp, "failed", fb)
             ELSE pure_python_fallback(c)

IsSpecial(c) ==
    \/ Lower(c) = "help"
    \/ StartsWithMode(c)
    \/ Lower(c) \in {"python", "py", "repl"}

\* execute_math_command
execute_math_command(c, eo) ==
    IF Lower(c) = "help"
    THEN [Plain(Res(TRUE, "Help dialog opened", "", {"special"})) EXCEPT !.help = TRUE]
    ELSE IF StartsWithMode(c)
    THEN change_mode_command(ModeArgument(c))
    ELSE IF Lower(c) \in {"python", "py", "repl"}
    THEN [Plain(Res(TRUE, "=== Python Interactive REPL Mode ===", "", {"mode_change"}))
            EXCEPT !.repl = TRUE]
    ELSE execute_arithmetic(c, eo)

\* the try block of execute_command_thread, up to the root.after
RunCommand(c, eo) ==
    IF python_repl_mode THEN execute_python_command(c) ELSE execute_math_command(c, eo)

\* the engine process is launched
LaunchesEngine(c, eo) ==
    /\ ~python_repl_mode
    /\ ~IsSpecial(c)
    /\ execute_arithmetic(c, eo).engine \in {"ok", "failed"}

-----------------------------------------------------------------------------
(* The calculator shell: threads *)

\* what the user starts in one behaviour: commands typed, mode buttons pressed,
\* Build Engine, Install Packages
MaxOps == 2

Started(pc) == IF pc = "idle" THEN 0 ELSE 1

OpsStarted == Len(cmds) + Started(build_pc) + Started(install_pc)

Widgets == {"output_text", "input_text", "status_label", "progress_bar", "mode_label",
            "input_mode_label", "engine_label", "package_label", "help_window"}

ByUi(ws) == {[widget |-> w, thread |-> "ui"] : w \in ws}
ByWorker(ws) == {[widget |-> w, thread |-> "worker"] : w \in ws}

\* the mode buttons of create_left_panel pressed here
ButtonModes == {"linear"}

FastBuildTimeout == 300
CMakeConfigureTimeout == 60
CMakeBuildTimeout == 300
PipTimeout == 300

\* a callback scheduled with root.after(0, fn, ...)
Callback(fn) == [fn |-> fn, id |-> 0, result |-> NoRes]
HandleCallback(i, r) == [fn |-> "handle_command_result", id |-> i, result |-> r]

NewCmd(c, via) ==
    [cmd |-> c, via |-> via, pc |-> "start", repl |-> FALSE, engine |-> "none",
     fb |-> "not_called", fb_text |-> "", scheduled |-> 0, handled |-> 0, lines |-> <<>>]

\* __init__: the engine is looked for, the packages are checked (none is installed
\* yet: install_packages is what makes numpy available), the widgets are made and
\* written by the thread that later runs the main loop
ShellInit ==
    /\ launched = {}
    /\ TestIdle
    /\ MatlabIdle
    /\ results = NoResults
    /\ axiom_path = "None"
    /\ DaemonIdle
    /\ SecIdle
    /\ python_repl_mode = FALSE
    /\ python_globals = {}
    /\ current_mode = "ALGEBRAIC"
    /\ engine_available \in BOOLEAN
    /\ cpp_engine = IF engine_available THEN "interface" ELSE "None"
    /\ available_packages = {}
    /\ cmds = <<>>
    /\ ui_queue = <<>>
    /\ status = "Ready"
    /\ progress_running = FALSE
    /\ widget_writes = ByUi(Widgets \ {"help_window"})
    /\ build_pc = "idle"
    /\ install_pc = "idle"

\* the shell with its operations started at any time
InitGui == prog = "gui" /\ ShellInit

\* the shell used one command at a time: a command is submitted or a mode
\* button pressed when the one before has been dealt with
InitSeq == prog = "seq" /\ ShellInit

Shell == prog \in {"gui", "seq"}

\* the user may start a command
MayStart ==
    IF prog = "gui" THEN OpsStarted < MaxOps
    ELSE /\ ui_queue = <<>>
         /\ \A i \in 1..Len(cmds) : cmds[i].pc \in {"handled", "dead"}

Typed == IF prog = "gui" THEN Commands ELSE SeqCommands

\* the mode buttons pressed when the shell is used one command at a time
SeqButtonModes == {"linear", "numpy"}

Pressed == IF prog = "gui" THEN ButtonModes ELSE SeqButtonModes

\* the commands kept on record: used one at a time, only the last one is
Kept == IF prog = "gui" THEN cmds ELSE <<>>

\* execute_command, on the UI thread: Execute, Ctrl+Enter, F5
ExecuteCommand ==
    /\ Shell
    /\ MayStart
    /\ \E c \in Typed : cmds' = Append(Kept, NewCmd(c, "thread"))
    /\ status' = "Executing..."
    /\ progress_running' = TRUE
    /\ widget_writes' = widget_writes \cup ByUi({"output_text", "status_label", "progress_bar"})
    /\ UNCHANGED <<prog, testVars, matlabVars, launched, qaVars, daemonVars, secVars, python_repl_mode,
                   python_globals, current_mode, engine_available, cpp_engine,
                   available_packages, ui_queue, build_pc, install_pc>>

\* (mutant) execute_command calls execute_command_thread itself
NoThread(via) == "ui"

\* the thread execute_command_thread runs on: the threading.Thread started by
\* execute_command, or the caller's own thread when change_mode calls it
ThreadOf(via) == IF via = "thread" THEN "worker" ELSE "ui"

\* execute_command_thread(command), run by cmds[i]'s thread `by`: the command is
\* evaluated and handle_command_result is scheduled with what it returned; an
\* Exception schedules it with the error; anything else ends the thread
CommandThreadBody(i, c, by, base) ==
    \E eo \in EngineOutcomes :
      LET o == RunCommand(c, eo) IN
      /\ python_repl_mode' = o.repl
      /\ python_globals' = o.globals
      /\ current_mode' = o.mode
      /\ widget_writes' =
           widget_writes \cup
             (IF o.mode_label
              THEN (IF by = "ui" THEN ByUi({"mode_label"}) ELSE ByWorker({"mode_label"}))
              ELSE {})
      /\ launched' =
           launched \cup
             (IF LaunchesEngine(c, eo)
              THEN {On(by, RunLaunch("engine", EngineTimeout))}
              ELSE {})
      /\ ui_queue' =
           (IF o.help THEN Append(ui_queue, Callback("show_help")) ELSE ui_queue)
             \o (IF o.escapes THEN <<>> ELSE <<HandleCallback(i, o.result)>>)
      /\ cmds' =
           [base EXCEPT ![i] =
              [@ EXCEPT !.pc = IF o.escapes THEN "dead" ELSE "queued",
                        !.repl = python_repl_mode,
                        !.engine = o.engine,
                        !.fb = o.fb,
                        !.fb_text = o.fb_text,
                        !.scheduled = IF o.escapes THEN 0 ELSE 1]]

\* the background thread started by execute_command
CommandThread ==
    /\ Shell
    /\ \E i \in 1..Len(cmds) :
         /\ cmds[i].pc = "start"
         /\ cmds[i].via = "thread"
         /\ CommandThreadBody(i, cmds[i].cmd, ThreadOf(cmds[i].via), cmds)
    /\ UNCHANGED <<prog, testVars, matlabVars, qaVars, daemonVars, secVars, engine_available, cpp_engine,
                   available_packages, status, progress_running, build_pc, install_pc>>

\* change_mode, on the UI thread: a mode button calls execute_command_thread itself
ChangeModeButton ==
    /\ Shell
    /\ MayStart
    /\ \E m \in Pressed :
         LET c == "mode " \o m IN
         CommandThreadBody(Len(Kept) + 1, c, ThreadOf("button"),
                           Append(Kept, NewCmd(c, "button")))
    /\ UNCHANGED <<prog, testVars, matlabVars, qaVars, daemonVars, secVars, engine_available, cpp_engine,
                   available_packages, status, progress_running, build_pc, install_pc>>

\* the elif chain of handle_command_result that picks how a result is shown
DisplayLabel(flags) ==
    CASE "senna_speed" \in flags    -> "senna"
      [] "f1_speed" \in flags       -> "f1"
      [] "execution_time" \in flags -> "cpp_time"
      [] "fast_eval" \in flags      -> "fast"
      [] "fallback" \in flags       -> "fallback"
      [] "cpp_failed" \in flags     -> "cpp_failed"
      [] "is_python" \in flags      -> "python"
      [] OTHER                      -> "cpp"

Line(label, text) == [label |-> label, text |-> text]

\* the output lines handle_command_result adds for a result, given the fallback's
\* answer to the same command
ResultLines(r, fb) ==
    IF r.success
    THEN IF r.text # "" THEN <<Line(DisplayLabel(r.flags), r.text)>> ELSE <<>>
    ELSE IF "fallback_needed" \in r.flags /\ fb.success
         THEN <<Line("auto_fallback", fb.text)>>
         ELSE <<Line("error", r.error)>>

\* handle_command_result(result, command), on the UI thread
HandleCommandResult(i, r) ==
    LET c == cmds[i].cmd
        fb == python_math_fallback(c)
        retried == ~r.success /\ "fallback_needed" \in r.flags
    IN  /\ progress_running' = FALSE
        /\ status' = "Ready"
        /\ widget_writes' =
             widget_writes \cup
               ByUi({"progress_bar", "status_label", "output_text", "input_text",
                     "input_mode_label"})
        /\ cmds' =
             [cmds EXCEPT ![i] =
                [@ EXCEPT !.pc = "handled",
                          !.handled = @ + 1,
                          !.fb = IF retried THEN FbState(fb) ELSE @,
                          !.fb_text = IF retried THEN fb.text ELSE @,
                          !.lines = @ \o ResultLines(r, fb)]]

\* the UI thread runs the oldest scheduled callback
RunCallback ==
    /\ Shell
    /\ ui_queue # <<>>
    /\ ui_queue' = Tail(ui_queue)
    /\ LET cb == Head(ui_queue) IN
       CASE cb.fn = "handle_command_result" -> HandleCommandResult(cb.id, cb.result)
         [] cb.fn = "progress_stop" ->
              /\ progress_running' = FALSE
              /\ widget_writes' = widget_writes \cup ByUi({"progress_bar"})
              /\ UNCHANGED <<status, cmds>>
         [] cb.fn = "set_status_ready" ->
              /\ status' = "Ready"
              /\ widget_writes' = widget_writes \cup ByUi({"status_label"})
              /\ UNCHANGED <<progress_running, cmds>>
         [] cb.fn = "raises" ->
              UNCHANGED <<status, progress_running, widget_writes, cmds>>
         [] OTHER ->
              /\ widget_writes' =
                   widget_writes \cup
                     ByUi({CASE cb.fn = "show_help" -> "help_window"
                             [] cb.fn = "engine_label_config" -> "engine_label"
                             [] cb.fn = "update_package_status" -> "package_label"
                             [] OTHER -> "output_text"})
              /\ UNCHANGED <<status, progress_running, cmds>>
    /\ UNCHANGED <<prog, testVars, matlabVars, launched, qaVars, daemonVars, secVars, python_repl_mode,
                   python_globals, current_mode, engine_available, cpp_engine,
                   available_packages, build_pc, install_pc>>

\* try_build_engine, on the UI thread
TryBuildEngine ==
    /\ prog = "gui"
    /\ build_pc = "idle"
    /\ OpsStarted < MaxOps
    /\ status' = "Building C++ engine..."
    /\ progress_running' = TRUE
    /\ widget_writes' = widget_writes \cup ByUi({"status_label", "progress_bar"})
    /\ build_pc' = "running"
    /\ UNCHANGED <<prog, testVars, matlabVars, launched, qaVars, daemonVars, secVars, python_repl_mode,
                   python_globals, current_mode, engine_available, cpp_engine,
                   available_packages, cmds, ui_queue, install_pc>>

\* how build_thread ends: "found" the build succeeded and init_cpp_engine found
\* the executable, "not_found" it did not, "timed_out" TimeoutExpired, "failed"
\* CalledProcessError or another exception
BuildOutcomes == {"found", "not_found", "timed_out", "failed"}

\* the processes build_thread runs: the build script when it exists, else cmake
\* twice, the second only when the first succeeded
BuildLaunches(o) ==
    { {RunLaunch("fast_build", FastBuildTimeout)},
      {RunLaunch("cmake_configure", CMakeConfigureTimeout),
       RunLaunch("cmake_build", CMakeBuildTimeout)} }
      \cup (IF o \in {"timed_out", "failed"}
            THEN { {RunLaunch("cmake_configure", CMakeConfigureTimeout)} }
            ELSE {})

\* build_thread; the message scheduled for "failed" names e after its except
\* clause ended, so the callback raises when the UI thread runs it
BuildThread ==
    /\ prog = "gui"
    /\ build_pc = "running"
    /\ \E o \in BuildOutcomes :
         /\ \E ls \in BuildLaunches(o) :
              launched' = launched \cup {On("worker", l) : l \in ls}
         /\ engine_available' = IF o = "found" THEN TRUE ELSE engine_available
         /\ cpp_engine' = IF o = "found" THEN "interface" ELSE cpp_engine
         /\ ui_queue' =
              ui_queue
                \o (CASE o = "found" -> <<Callback("add_output"), Callback("engine_label_config")>>
                      [] o = "failed" -> <<Callback("raises")>>
                      [] OTHER -> <<Callback("add_output")>>)
                \o <<Callback("progress_stop"), Callback("set_status_ready")>>
    /\ build_pc' = "finished"
    /\ UNCHANGED <<prog, testVars, matlabVars, qaVars, daemonVars, secVars, python_repl_mode, python_globals,
                   current_mode, available_packages, cmds, status, progress_running,
                   widget_writes, install_pc>>

\* install_packages(["numpy"]), on the UI thread, from the dialog's install_selected
InstallPackages ==
    /\ prog = "gui"
    /\ install_pc = "idle"
    /\ OpsStarted < MaxOps
    /\ "numpy" \notin available_packages
    /\ status' = "Installing packages..."
    /\ progress_running' = TRUE
    /\ widget_writes' = widget_writes \cup ByUi({"status_label", "progress_bar"})
    /\ install_pc' = "running"
    /\ UNCHANGED <<prog, testVars, matlabVars, launched, qaVars, daemonVars, secVars, python_repl_mode,
                   python_globals, current_mode, engine_available, cpp_engine,
                   available_packages, cmds, ui_queue, build_pc>>

\* install_thread: pip ends with "installed", "failed" (non-zero) or "raised"
InstallThread ==
    /\ prog = "gui"
    /\ install_pc = "running"
    /\ launched' = launched \cup {On("worker", RunLaunch("pip_install", PipTimeout))}
    /\ \E o \in {"installed", "failed", "raised"} :
         /\ available_packages' =
              IF o = "installed" THEN available_packages \cup {"numpy"}
              ELSE available_packages
         /\ ui_queue' =
              ui_queue
                \o <<Callback("add_output")>>
                \o (IF o = "raised" THEN <<Callback("raises")>>
                    ELSE <<Callback("add_output"), Callback("update_package_status")>>)
                \o <<Callback("progress_stop"), Callback("set_status_ready")>>
    /\ install_pc' = "finished"
    /\ UNCHANGED <<prog, testVars, matlabVars, qaVars, daemonVars, secVars, python_repl_mode, python_globals,
                   current_mode, engine_available, cpp_engine, cmds, status,
                   progress_running, widget_writes, build_pc>>

NextGui ==
    \/ ExecuteCommand
    \/ CommandThread
    \/ ChangeModeButton
    \/ RunCallback
    \/ TryBuildEngine
    \/ BuildThread
    \/ InstallPackages
    \/ InstallThread

SpecGui == InitGui /\ [][NextGui]_vars

NextSeq ==
    \/ ExecuteCommand
    \/ CommandThread
    \/ ChangeModeButton
    \/ RunCallback

SpecSeq == InitSeq /\ [][NextSeq]_vars


-----------------------------------------------------------------------------
(* The calculator shell: which attributes of the shell a thread touches *)

\* the attributes execute_command_thread(c) assigns or updates in place
WorkerWrites(c) ==
    IF python_repl_mode
    THEN IF Lower(c) \in ExitCommands THEN {"python_repl_mode"}
         ELSE IF PyExec(c, python_globals).kind \in {"value", "stmt"}
              THEN {"python_globals"}
              ELSE {}
    ELSE IF StartsWithMode(c)
         THEN (IF ModeArgument(c) \in DOMAIN mode_map THEN {"current_mode"} ELSE {})
         ELSE IF Lower(c) \in {"python", "py", "repl"} THEN {"python_repl_mode"}
              ELSE {}

\* the attributes execute_command_thread(c) reads however the engine ends
WorkerReads(c) ==
    {"python_repl_mode"} \cup
      (IF python_repl_mode
       THEN IF Lower(c) \in ExitCommands THEN {}
            ELSE {"available_packages", "python_globals"}
       ELSE IF IsSpecial(c) THEN {}
            ELSE IF is_simple_arithmetic(c)
                 THEN {"available_packages"} \cup
                        (IF python_math_fallback(c).success THEN {}
                         ELSE {"engine_available"} \cup
                                (IF engine_available THEN {"cpp_engine"} ELSE {}))
                 ELSE {"engine_available"} \cup
                        (IF engine_available THEN {"cpp_engine"}
                         ELSE {"available_packages"}))

\* the threads that have been started and have not ended, and the UI thread
\* when a callback waits for it
Running ==
    {<<"command", i>> : i \in {j \in 1..Len(cmds) :
                                 cmds[j].pc = "start" /\ cmds[j].via = "thread"}}
      \cup (IF build_pc = "running" THEN {<<"build", 0>>} ELSE {})
      \cup (IF install_pc = "running" THEN {<<"install", 0>>} ELSE {})
      \cup (IF ui_queue # <<>> THEN {<<"ui", 0>>} ELSE {})

Workers == {t \in Running : t[1] # "ui"}

\* build_thread assigns engine_available, and cpp_engine in init_cpp_engine;
\* install_thread assigns available_packages; the callbacks assign nothing
Writes(t) ==
    CASE t[1] = "command" -> WorkerWrites(cmds[t[2]].cmd)
      [] t[1] = "build"   -> {"engine_available", "cpp_engine"}
      [] t[1] = "install" -> {"available_packages"}
      [] OTHER            -> {}

\* the callback the UI thread runs next: handle_command_result reads
\* python_repl_mode, update_package_status reads available_packages
Reads(t) ==
    CASE t[1] = "command" -> WorkerReads(cmds[t[2]].cmd)
      [] t[1] = "ui" ->
           (CASE Head(ui_queue).fn = "handle_command_result" -> {"python_repl_mode"}
              [] Head(ui_queue).fn = "update_package_status" -> {"available_packages"}
              [] OTHER -> {})
      [] OTHER -> {}

-----------------------------------------------------------------------------
(* The MATLAB-alternative shell: texts and values *)

\* The commands typed here
MatlabCommands ==
    {"A = [1 2; 3 4]", "A = [1 2;3 4]", "A = [1 2]", "B = [3", "B = [3]", "x = 5",
     "x = 10**5000",
     "x", "1/0", "clear", "clc", "help plot", "plot(sin(0:0.1:2*pi))"}

\* a command as its characters; a run of characters nothing here looks into is
\* kept as one piece
Chars(c) ==
    CASE c = "A = [1 2; 3 4]" ->
           <<"A", " ", "=", " ", "[", "1", " ", "2", ";", " ", "3", " ", "4", "]">>
      [] c = "A = [1 2;3 4]" ->
           <<"A", " ", "=", " ", "[", "1", " ", "2", ";", "3", " ", "4", "]">>
      [] c = "A = [1 2]" -> <<"A", " ", "=", " ", "[", "1", " ", "2", "]">>
      [] c = "B = [3" -> <<"B", " ", "=", " ", "[", "3">>
      [] c = "B = [3]" -> <<"B", " ", "=", " ", "[", "3", "]">>
      [] c = "x = 5" -> <<"x", " ", "=", " ", "5">>
      [] c = "x = 10**5000" -> <<"x", " ", "=", " ", "10**5000">>
      [] c = "help plot" -> <<"help", " ", "plot">>
      [] c = "plot(sin(0:0.1:2*pi))" -> <<"plot", "(", "sin", "(0:0.1:2*pi))">>
      [] OTHER -> <<c>>

\* ch in text
Has(text, ch) == \E k \in 1..Len(text) : text[k] = ch

\* command.startswith(word)
StartsWith(c, word) == Chars(c)[1] = word

\* text.replace(ch, by), by a text
RECURSIVE Replace(_, _, _)
Replace(text, ch, by) ==
    IF text = <<>> THEN <<>>
    ELSE (IF Head(text) = ch THEN by ELSE <<Head(text)>>) \o Replace(Tail(text), ch, by)

\* text.strip()
RECURSIVE Strip(_)
Strip(text) ==
    IF text = <<>> THEN <<>>
    ELSE IF Head(text) = " " THEN Strip(Tail(text))
    ELSE IF text[Len(text)] = " " THEN Strip(SubSeq(text, 1, Len(text) - 1))
    ELSE text

\* the position of the first '='
FirstEquals(text) == CHOOSE k \in 1..Len(text) : text[k] = "=" /\ ~Has(SubSeq(text, 1, k - 1), "=")

\* the four replace calls of handle_matrix_assignment, in their order
ToNumPy(matrix_str) ==
    LET s1 == Replace(matrix_str, "[", <<"np.array(", "[", "[">>)
        s2 == Replace(s1, "]", <<"]", "]", ")">>)
        s3 == Replace(s2, ";", <<"]", ",", " ", "[">>)
    IN  Replace(s3, " ", <<",", " ">>)

Digits == {"1", "2", "3", "4", "5"}

DigitValue(d) ==
    CASE d = "1" -> 1 [] d = "2" -> 2 [] d = "3" -> 3 [] d = "4" -> 4 [] OTHER -> 5

ParseFail == [ok |-> FALSE, val |-> <<>>, next |-> 0]

\* Python's list display from position i: '[' items separated by ',' with an
\* optional trailing ',' and ']'; at depth 1 the items are digits, above they
\* are list displays.  st: "first", "after_item", "after_comma"
RECURSIVE ParseList(_, _, _)
RECURSIVE ParseItems(_, _, _, _, _)
ParseList(t, i, depth) ==
    IF i > Len(t) \/ t[i] # "[" THEN ParseFail
    ELSE ParseItems(t, i + 1, depth, <<>>, "first")

ParseItems(t, i, depth, acc, st) ==
    IF i > Len(t) THEN ParseFail
    ELSE IF t[i] = "]" THEN [ok |-> TRUE, val |-> acc, next |-> i + 1]
    ELSE IF t[i] = ","
         THEN IF st = "after_item" THEN ParseItems(t, i + 1, depth, acc, "after_comma")
              ELSE ParseFail
    ELSE IF st = "after_item" THEN ParseFail
    ELSE IF depth = 1
         THEN IF t[i] \in Digits
              THEN ParseItems(t, i + 1, depth, Append(acc, DigitValue(t[i])), "after_item")
              ELSE ParseFail
    ELSE LET r == ParseList(t, i, depth - 1) IN
         IF r.ok THEN ParseItems(t, r.next, depth, Append(acc, r.val), "after_item")
         ELSE ParseFail

\* eval(matrix_str, {"np": np}): white space between tokens means nothing; the
\* text must be np.array( list of lists ) and the rows of equal length
EvalNumPy(text) ==
    LET t == Replace(text, " ", <<>>)
        r == IF Len(t) >= 2 /\ t[1] = "np.array(" THEN ParseList(t, 2, 2) ELSE ParseFail
    IN  IF /\ r.ok
           /\ r.next = Len(t)
           /\ t[Len(t)] = ")"
           /\ \A a, b \in 1..Len(r.val) : Len(r.val[a]) = Len(r.val[b])
        THEN [ok |-> TRUE, rows |-> r.val]
        ELSE [ok |-> FALSE, rows |-> <<>>]

\* the values of workspace variables: a NumPy array, an int, and an int of more
\* digits than str() converts
NdArray(rows) == [kind |-> "ndarray", rows |-> rows]
Scalar(n) == [kind |-> "int", rows |-> <<<<n>>>>]
BigInt == [kind |-> "bigint", rows |-> <<>>]

\* str(value) returns; for BigInt it raises ValueError
Printable(v) == v.kind # "bigint"

\* a dict in insertion order
Names(d) == [k \in 1..Len(d) |-> d[k].name]
HasKey(d, name) == \E k \in 1..Len(d) : d[k].name = name
Get(d, name) == d[CHOOSE k \in 1..Len(d) : d[k].name = name].value
Set(d, name, v) ==
    IF HasKey(d, name)
    THEN [k \in 1..Len(d) |-> IF d[k].name = name THEN [name |-> name, value |-> v] ELSE d[k]]
    ELSE Append(d, [name |-> name, value |-> v])

-----------------------------------------------------------------------------
(* The MATLAB-alternative shell: commands and buttons *)

\* add_command_output(text, style), the text by what it says
Out(style, what) == [style |-> style, what |-> what]

\* what a handler comes to: the workspace and the output it added
Done(ws, out) == [vars |-> ws, out |-> out]

\* the name left of the '='
NameOf(text) == IF Len(text) = 1 THEN text[1] ELSE "?"

\* handle_matrix_assignment
handle_matrix_assignment(c, ws) ==
    LET text == Chars(c) IN
    IF Has(text, "=") /\ Has(text, "[") /\ Has(text, "]")
    THEN LET k == FirstEquals(text)
             var_name == Strip(SubSeq(text, 1, k - 1))
             matrix_str == Strip(SubSeq(text, k + 1, Len(text)))
             result == EvalNumPy(ToNumPy(matrix_str))
         IN  IF result.ok
             THEN Done(Set(ws, NameOf(var_name), NdArray(result.rows)),
                       <<Out("success", "assigned")>>)
             ELSE Done(ws, <<Out("error", "Matrix error")>>)
    ELSE Done(ws, <<>>)

\* eval, then exec, of process_matlab_command with no builtins and the workspace
\* as locals: "value" an expression and its value, "stmt" a statement and what
\* it binds, "error" both raised
MatlabEval(c, ws) ==
    CASE c = "x = 5" -> [kind |-> "stmt", name |-> "x", value |-> Scalar(5)]
      [] c = "x = 10**5000" -> [kind |-> "stmt", name |-> "x", value |-> BigInt]
      [] c = "x" -> IF HasKey(ws, "x")
                    THEN [kind |-> "value", name |-> "", value |-> Get(ws, "x")]
                    ELSE [kind |-> "error", name |-> "", value |-> Scalar(0)]
      [] OTHER -> [kind |-> "error", name |-> "", value |-> Scalar(0)]

\* process_matlab_command, the command window not cleared
process_matlab_command(c, ws) ==
    IF c = "clear" THEN Done(<<>>, <<Out("info", "Workspace cleared")>>)
    ELSE IF StartsWith(c, "help") THEN Done(ws, <<Out("info", "Help system coming soon!")>>)
    ELSE IF StartsWith(c, "plot")
    THEN Done(ws, <<IF Has(Chars(c), "sin") THEN Out("success", "Plot generated")
                    ELSE Out("info", "Advanced plotting coming soon!")>>)
    ELSE IF StartsWith(c, "surf") \/ StartsWith(c, "mesh")
    THEN Done(ws, <<Out("success", "3D plot generated")>>)
    ELSE IF Has(Chars(c), "=") /\ Has(Chars(c), "[") THEN handle_matrix_assignment(c, ws)
    ELSE LET v == MatlabEval(c, ws) IN
         CASE v.kind = "value" /\ Printable(v.value) ->
                Done(Set(ws, "ans", v.value), <<Out("success", "ans")>>)
           [] v.kind = "value" -> Done(ws, <<Out("success", "Command executed")>>)
           [] v.kind = "stmt" ->
                Done(Set(ws, v.name, v.value), <<Out("success", "Command executed")>>)
           [] OTHER -> Done(ws, <<Out("error", "Error")>>)

\* the rows refresh_workspace leaves in the panel: it empties the panel and adds
\* a row per variable, and stops where str(value) raises
RECURSIVE Rows(_)
Rows(ws) ==
    IF ws = <<>> \/ ~Printable(Head(ws).value) THEN <<>>
    ELSE <<Head(ws).name>> \o Rows(Tail(ws))

InitMatlab ==
    /\ prog = "matlab"
    /\ launched = {}
    /\ TestIdle
    /\ results = NoResults
    /\ axiom_path = "None"
    /\ DaemonIdle
    /\ SecIdle
    /\ GuiIdle
    /\ workspace_vars = <<>>
    /\ workspace_tree = <<>>
    /\ command_output = <<Out("info", "welcome")>>

\* execute_matlab_command, for a command that is not empty: the command is
\* shown, processed (clc empties the window) and the panel refreshed
ExecuteMatlabCommand ==
    /\ prog = "matlab"
    /\ \E c \in MatlabCommands :
         LET r == process_matlab_command(c, workspace_vars) IN
         /\ workspace_vars' = r.vars
         /\ command_output' = IF c = "clc" THEN <<>> ELSE <<Out("normal", c)>> \o r.out
         /\ workspace_tree' = Rows(r.vars)
    /\ UNCHANGED <<prog, testVars, launched, qaVars, daemonVars, secVars, guiVars>>

\* the Refresh button
RefreshWorkspace ==
    /\ prog = "matlab"
    /\ workspace_tree' = Rows(workspace_vars)
    /\ command_output' = <<>>
    /\ UNCHANGED <<prog, testVars, launched, qaVars, daemonVars, secVars, guiVars, workspace_vars>>

\* clear_workspace
clear_workspace ==
    /\ workspace_vars' = <<>>
    /\ workspace_tree' = Rows(<<>>)
    /\ command_output' = <<Out("info", "Workspace cleared")>>
    /\ UNCHANGED <<prog, testVars, launched, qaVars, daemonVars, secVars, guiVars>>

\* the Clear button of the workspace panel
ClearWorkspace == prog = "matlab" /\ workspace_vars # <<>> /\ clear_workspace

\* the New button of the toolbar: new_workspace
NewWorkspace == prog = "matlab" /\ workspace_vars # <<>> /\ clear_workspace

NextMatlab ==
    \/ ExecuteMatlabCommand
    \/ RefreshWorkspace
    \/ ClearWorkspace
    \/ NewWorkspace

SpecMatlab == InitMatlab /\ [][NextMatlab]_vars

-----------------------------------------------------------------------------
(* Executable probing: find_axiom_executable, find_cpp_executable *)

\* possible_paths of find_axiom_executable
possible_paths ==
    << "ninja-build/axiom.exe",
       "build/axiom.exe",
       "build/Debug/axiom.exe",
       "build/Release/axiom.exe",
       "cmake-build-debug/axiom.exe",
       "build-ninja/axiom.exe",
       "axiom.exe",
       "build/axiom",
       "build/Debug/axiom",
       "cmake-build-debug/axiom",
       "build-ninja/axiom",
       "ninja-build/axiom",
       "axiom" >>

\* Path(__file__).parent, as the parts of a path
current_dir == <<"src", "gui", "python">>

\* str(path): the parts joined by the separator
RECURSIVE Str(_)
Str(path) ==
    IF Len(path) = 1 THEN path[1] ELSE path[1] \o "/" \o Str(Tail(path))

\* possible_paths of find_cpp_executable: current_dir / part / part
cpp_possible_paths ==
    << current_dir \o <<"build-ninja", "cpp_dynamic_calc.exe">>,
       current_dir \o <<"build", "cpp_dynamic_calc.exe">>,
       current_dir \o <<"build-ninja", "Debug", "cpp_dynamic_calc.exe">>,
       current_dir \o <<"build", "Debug", "cpp_dynamic_calc.exe">>,
       current_dir \o <<"cmake-build-debug", "cpp_dynamic_calc.exe">>,
       current_dir \o <<"build-ninja", "cpp_dynamic_calc">>,
       current_dir \o <<"build", "cpp_dynamic_calc">> >>

\* os.path.exists(path), path a string, on the file system fs
Exists(fs, path) == path \in fs

\* path.exists(), path a Path
PathExists(fs, path) == Str(path) \in fs

\* (mutant) the loop goes on after a path was found: the last one that exists wins
RECURSIVE find_axiom_executable_last(_, _)
find_axiom_executable_last(fs, paths) ==
    IF paths = <<>> THEN "None"
    ELSE IF Exists(fs, paths[Len(paths)]) THEN paths[Len(paths)]
         ELSE find_axiom_executable_last(fs, SubSeq(paths, 1, Len(paths) - 1))

\* for path in possible_paths: if os.path.exists(path): return path
\* and return None after the loop
RECURSIVE find_axiom_executable(_, _)
find_axiom_executable(fs, paths) ==
    IF paths = <<>> THEN "None"
    ELSE IF Exists(fs, Head(paths)) THEN Head(paths)
         ELSE find_axiom_executable(fs, Tail(paths))

\* for path in possible_paths: if path.exists(): return str(path)
\* and return None after the loop
RECURSIVE find_cpp_executable(_, _)
find_cpp_executable(fs, paths) ==
    IF paths = <<>> THEN "None"
    ELSE IF PathExists(fs, Head(paths)) THEN Str(Head(paths))
         ELSE find_cpp_executable(fs, Tail(paths))

\* The file systems probed: what exists is any part of these paths, some of
\* them candidates of one list or the other, some of neither
ProbedPaths ==
    { "build/axiom.exe", "axiom.exe", "build/axiom", "axiom", "bin/axiom.exe",
      "src/gui/python/build/cpp_dynamic_calc.exe",
      "src/gui/python/build-ninja/cpp_dynamic_calc",
      "src/gui/python/build/cpp_dynamic_calc",
      "build/cpp_dynamic_calc.exe" }

FileSystems == SUBSET ProbedPaths

\* a program about to look for its executable: the QA suite in __init__,
\* the calculator shell in init_cpp_engine
InitProbe ==
    /\ prog = "probe"
    /\ launched = {}
    /\ MatlabIdle
    /\ results = NoResults
    /\ axiom_path = "None"
    /\ DaemonIdle
    /\ SecIdle
    /\ GuiIdle
    /\ t_pc \in {"qa_init", "init_cpp_engine"}
    /\ files \in FileSystems
    /\ executable_path = "None"
    /\ ScriptIdle
    /\ PerfIdle

\* AxiomQATestSuite.__init__: self.axiom_path = self.find_axiom_executable()
QaInit ==
    /\ prog = "probe" /\ t_pc = "qa_init"
    /\ axiom_path' = find_axiom_executable(files, possible_paths)
    /\ t_pc' = "qa_probed"
    /\ UNCHANGED <<prog, matlabVars, launched, results, daemonVars, secVars, guiVars,
                   files, executable_path, scriptVars, perfVars>>

\* init_cpp_engine: the interface is made and True returned when a path was found
InitCppEngine ==
    /\ prog = "probe" /\ t_pc = "init_cpp_engine"
    /\ executable_path' = find_cpp_executable(files, cpp_possible_paths)
    /\ cpp_engine' = IF executable_path' # "None" THEN "interface" ELSE cpp_engine
    /\ engine_available' = (executable_path' # "None")
    /\ t_pc' = "cpp_probed"
    /\ UNCHANGED <<prog, matlabVars, launched, qaVars, daemonVars, secVars,
                   python_repl_mode, python_globals, current_mode,
                   available_packages, cmds, ui_queue, status, progress_running,
                   widget_writes, build_pc, install_pc,
                   files, scriptVars, perfVars>>

NextProbe ==
    \/ QaInit
    \/ InitCppEngine

SpecProbe == InitProbe /\ [][NextProbe]_vars

-----------------------------------------------------------------------------
(* The binary-identity check: section_1_architecture_verification and *)
(* core_architecture_test                                              *)

\* the literal "AXIOM Engine v3.0", as words
IdentificationString == <<"AXIOM", "Engine", "v3.0">>

\* timeout=5 of the --help invocations
HelpTimeout == 5

\* What an executable may write to its standard output when run with --help
HelpStdouts ==
    { <<>>,
      <<"AXIOM", "Engine", "v3.0">>,
      <<"Usage:", "axiom", "AXIOM", "Engine", "v3.0", "options">>,
      <<"AXIOM", "Engine", "v3.1">>,
      <<"axiom", "engine", "v3.0">>,
      <<"AXIOM", "v3.0", "Engine">> }

\* and to its standard error
HelpStderrs == { <<>>, <<"AXIOM", "Engine", "v3.0">> }

\* How subprocess.run([axiom_path, "--help"], capture_output=True, text=True,
\* timeout=5) ends: the process exits and result holds what it wrote; it is
\* killed at the timeout (TimeoutExpired, whatever it wrote before); it could
\* not be started (OSError)
HelpOutcomes ==
    [kind : {"exit"}, rc : ReturnCodes, stdout : HelpStdouts, stderr : HelpStderrs]
      \cup [kind : {"timeout"}, rc : {0}, stdout : HelpStdouts, stderr : {<<>>}]
      \cup [kind : {"exception"}, rc : {0}, stdout : {<<>>}, stderr : {<<>>}]

\* str(e) of the exception subprocess.run raised
HelpExcMsg(o) == IF o.kind = "timeout" THEN "TimeoutExpired" ELSE "OSError"

\* (mutant) the string is looked for in everything the process wrote
IdentifiedAnywhere(o) ==
    Contains(o.stdout, IdentificationString) \/ Contains(o.stderr, IdentificationString)

\* "AXIOM Engine v3.0" in result.stdout
Identified(o) == Contains(o.stdout, IdentificationString)

\* what Test 1.1 records for an invocation that ended as o
IdentityVerdict(o) ==
    IF o.kind = "exit"
    THEN (IF Identified(o) THEN PASS ELSE FAIL)
    ELSE FailWith(HelpExcMsg(o))

\* The file systems the two scripts are run on: nothing built, a build that
\* both scripts look for, one that only the QA suite looks for, one that neither does
ScriptFileSystems ==
    { {}, {"build/axiom.exe"}, {"axiom"}, {"bin/axiom.exe"} }

\* the QA suite after __init__, about to run section 1
InitIdentity ==
    /\ prog = "identity"
    /\ launched = {}
    /\ MatlabIdle
    /\ results = NoResults
    /\ files \in ScriptFileSystems
    /\ axiom_path = find_axiom_executable(files, possible_paths)
    /\ DaemonIdle
    /\ SecIdle
    /\ GuiIdle
    /\ t_pc = "identity"
    /\ executable_path = "None"
    /\ ScriptIdle
    /\ PerfIdle

\* if not self.axiom_path: the failure is recorded and the section returns False
IdentityNoExecutable ==
    /\ prog = "identity" /\ t_pc = "identity"
    /\ axiom_path = "None"
    /\ results' = Record("binary_identity", <<"FAIL", "-", "Executable", "not", "found">>)
    /\ t_pc' = "returned"
    /\ UNCHANGED <<prog, matlabVars, launched, axiom_path, daemonVars, secVars, guiVars,
                   files, executable_path, scriptVars, perfVars>>

\* Test 1.1 with an executable: the invocation, then what is recorded; the
\* section goes on with test_daemon_handshake whatever was recorded
IdentityCheck ==
    /\ prog = "identity" /\ t_pc = "identity"
    /\ axiom_path # "None"
    /\ \E o \in HelpOutcomes :
         /\ help_out' = o
         /\ results' = Record("binary_identity", IdentityVerdict(o))
    /\ launched' = launched \cup {On("main", RunLaunch("binary_identity", HelpTimeout))}
    /\ t_pc' = "handshake"
    /\ UNCHANGED <<prog, matlabVars, axiom_path, daemonVars, secVars, guiVars,
                   files, executable_path, checks_made, exit_code, score, perfVars>>

NextIdentity ==
    \/ IdentityNoExecutable
    \/ IdentityCheck

\* possible_paths of test_core_architecture
core_possible_paths ==
    << "ninja-build/axiom.exe", "build/axiom.exe", "cmake-build-debug/axiom.exe" >>

\* len(test_cases), len(enterprise_tests), range(10) of Test 3
CoreTestCases == 4
CoreEnterpriseTests == 1
CoreBenchmarkRuns == 10

\* timeout= of the invocations of Tests 2, 3 and 4
CoreCaseTimeout == 5
CoreBenchmarkTimeout == 1
CoreEnterpriseTimeout == 10

\* core_architecture_test.py started as a script
InitCore ==
    /\ prog = "core"
    /\ launched = {}
    /\ MatlabIdle
    /\ results = NoResults
    /\ files \in ScriptFileSystems
    /\ axiom_path = "None"
    /\ DaemonIdle
    /\ SecIdle
    /\ GuiIdle
    /\ t_pc = "find"
    /\ executable_path = "None"
    /\ ScriptIdle
    /\ PerfIdle

\* what sys.exit(0 if success else 1) exits with
ExitStatus(success) == IF success THEN 0 ELSE 1

\* the loop over possible_paths; return False when nothing was found
CoreFind ==
    /\ prog = "core" /\ t_pc = "find"
    /\ axiom_path' = find_axiom_executable(files, core_possible_paths)
    /\ IF axiom_path' = "None"
       THEN t_pc' = "exited" /\ exit_code' = ExitStatus(FALSE)
       ELSE t_pc' = "test1" /\ exit_code' = exit_code
    /\ UNCHANGED <<prog, matlabVars, launched, results, daemonVars, secVars, guiVars,
                   files, executable_path, help_out, checks_made, score, perfVars>>

\* Test 1: return False when the string is missing or subprocess.run raised
CoreTest1 ==
    /\ prog = "core" /\ t_pc = "test1"
    /\ \E o \in HelpOutcomes :
         /\ help_out' = o
         /\ IF o.kind = "exit" /\ Identified(o)
            THEN t_pc' = "test2" /\ exit_code' = exit_code
            ELSE t_pc' = "exited" /\ exit_code' = ExitStatus(FALSE)
    /\ launched' = launched \cup {On("main", RunLaunch("core_help", HelpTimeout))}
    /\ UNCHANGED <<prog, matlabVars, qaVars, daemonVars, secVars, guiVars,
                   files, executable_path, checks_made, score, perfVars>>

\* Test 2: the four test cases, passed of them with the expected output
CoreTest2 ==
    /\ prog = "core" /\ t_pc = "test2"
    /\ \E passed \in 0..CoreTestCases : score' = score + passed
    /\ checks_made' = checks_made + 1
    /\ launched' = launched \cup {On("main", RunLaunch("core_case", CoreCaseTimeout))}
    /\ t_pc' = "test3"
    /\ UNCHANGED <<prog, matlabVars, qaVars, daemonVars, secVars, guiVars,
                   files, executable_path, help_out, exit_code, perfVars>>

\* Test 3: ten timed invocations; only printed
CoreTest3 ==
    /\ prog = "core" /\ t_pc = "test3"
    /\ checks_made' = checks_made + 1
    /\ launched' = launched \cup {On("main", RunLaunch("core_benchmark", CoreBenchmarkTimeout))}
    /\ t_pc' = "test4"
    /\ UNCHANGED <<prog, matlabVars, qaVars, daemonVars, secVars, guiVars,
                   files, executable_path, help_out, exit_code, score, perfVars>>

\* Test 4: the enterprise flag
CoreTest4 ==
    /\ prog = "core" /\ t_pc = "test4"
    /\ \E enterprise_passed \in 0..CoreEnterpriseTests : score' = score + enterprise_passed
    /\ checks_made' = checks_made + 1
    /\ launched' = launched \cup {On("main", RunLaunch("core_enterprise", CoreEnterpriseTimeout))}
    /\ t_pc' = "assess"
    /\ UNCHANGED <<prog, matlabVars, qaVars, daemonVars, secVars, guiVars,
                   files, executable_path, help_out, exit_code, perfVars>>

\* success_rate = (total_score / max_score) * 100; True from 60 up
CoreSuccess(total_score) ==
    (total_score * 100) \div (CoreTestCases + CoreEnterpriseTests) >= 60

\* Final Assessment, and the exit of the script
CoreAssess ==
    /\ prog = "core" /\ t_pc = "assess"
    /\ exit_code' = ExitStatus(CoreSuccess(score))
    /\ t_pc' = "exited"
    /\ UNCHANGED <<prog, matlabVars, launched, qaVars, daemonVars, secVars, guiVars,
                   files, executable_path, help_out, checks_made, score, perfVars>>

NextCore ==
    \/ CoreFind
    \/ CoreTest1
    \/ CoreTest2
    \/ CoreTest3
    \/ CoreTest4
    \/ CoreAssess

\* the two scripts that check the binary's identity
InitScripts == InitIdentity \/ InitCore

NextScripts == NextIdentity \/ NextCore

SpecIdentity == InitScripts /\ [][NextScripts]_vars

-----------------------------------------------------------------------------
(* section_2_performance_stress_testing: test_latency_ping and *)
(* test_throughput_flood.  Memory is counted in MB.            *)

\* range(100) of test_latency_ping, range(10) of test_throughput_flood
LatencyRuns == 100
ThroughputRuns == 10

\* timeout=1 and timeout=5 of the invocations
LatencyTimeout == 1
ThroughputTimeout == 5

\* 100 * 1024 * 1024 bytes
MemoryBound == 100

\* process.memory_info().rss when section 2 starts
BaseRss == 50

\* By how much the resident set of the test process may grow with each
\* subprocess.run it makes
LeakRates == {0, 1, 2, 10, 12}

\* (total_time / 100) * 1000, in ms
AvgLatencies == {5, 10, 50, 100, 500}

\* What the standard output of an invocation of "1+1" may be, as characters
PingStdouts == { <<"2">>, <<"1", "2">>, <<"3">>, <<>> }

\* how an invocation of "1+1" ends
PingOutcomes ==
    [kind : {"exit"}, rc : ReturnCodes, stdout : PingStdouts]
      \cup [kind : {"timeout", "exception"}, rc : {0}, stdout : {<<>>}]

\* result.returncode != 0 or "2" not in result.stdout
PingFailed(o) == o.rc # 0 \/ ~Contains(o.stdout, <<"2">>)

\* what test_latency_ping records after its hundred invocations
LatencyVerdict(avg_latency) ==
    IF avg_latency < 10 THEN <<"PASS", "-", "SENNA", "SPEED">>
    ELSE IF avg_latency < 100 THEN <<"PASS", "-", "F1", "SPEED">>
    ELSE <<"FAIL", "-", "Too", "slow">>

\* (mutant) growth up to the bound passes
ThroughputVerdictUpTo(memory_growth) ==
    IF memory_growth <= MemoryBound THEN PASS ELSE <<"WARN", "-", "Memory", "growth">>

\* what test_throughput_flood records for memory_growth
ThroughputVerdict(memory_growth) ==
    IF memory_growth < MemoryBound THEN PASS ELSE <<"WARN", "-", "Memory", "growth">>

\* the QA suite after __init__, about to run section 2
InitPerf ==
    /\ prog = "perf"
    /\ launched = {}
    /\ MatlabIdle
    /\ results = NoResults
    /\ files \in ScriptFileSystems
    /\ axiom_path = find_axiom_executable(files, possible_paths)
    /\ DaemonIdle
    /\ SecIdle
    /\ GuiIdle
    /\ t_pc = "latency"
    /\ executable_path = "None"
    /\ ScriptIdle
    /\ lat_i = 0
    /\ thr_i = 0
    /\ leak \in LeakRates
    /\ rss = BaseRss
    /\ initial_memory = 0
    /\ growth = [latency |-> 0, throughput |-> 0]

\* test_latency_ping: if not self.axiom_path: return
LatencyNoExecutable ==
    /\ prog = "perf" /\ t_pc = "latency"
    /\ axiom_path = "None"
    /\ t_pc' = "throughput"
    /\ UNCHANGED <<prog, matlabVars, launched, qaVars, daemonVars, secVars, guiVars,
                   files, executable_path, scriptVars, perfVars>>

\* one turn of `for i in range(100)`: the invocation, and the return with
\* FAIL - Calc i or FAIL - e when it failed
LatencyInvoke ==
    /\ prog = "perf" /\ t_pc = "latency"
    /\ axiom_path # "None"
    /\ lat_i < LatencyRuns
    /\ \E o \in PingOutcomes :
         IF o.kind # "exit"
         THEN /\ results' = Record("latency", FailWith(HelpExcMsg(o)))
              /\ t_pc' = "throughput"
              /\ lat_i' = lat_i
         ELSE IF PingFailed(o)
         THEN /\ results' = Record("latency", <<"FAIL", "-", "Calc", ToString(lat_i)>>)
              /\ t_pc' = "throughput"
              /\ lat_i' = lat_i
         ELSE /\ results' = results
              /\ t_pc' = t_pc
              /\ lat_i' = lat_i + 1
    /\ rss' = rss + leak
    /\ growth' = [growth EXCEPT !.latency = @ + leak]
    /\ launched' = launched \cup {On("main", RunLaunch("latency", LatencyTimeout))}
    /\ UNCHANGED <<prog, matlabVars, axiom_path, daemonVars, secVars, guiVars,
                   files, executable_path, scriptVars, thr_i, leak, initial_memory>>

\* after the loop: the verdict on avg_latency
LatencyEnd ==
    /\ prog = "perf" /\ t_pc = "latency"
    /\ axiom_path # "None"
    /\ lat_i = LatencyRuns
    /\ \E avg_latency \in AvgLatencies :
         results' = Record("latency", LatencyVerdict(avg_latency))
    /\ t_pc' = "throughput"
    /\ UNCHANGED <<prog, matlabVars, launched, axiom_path, daemonVars, secVars, guiVars,
                   files, executable_path, scriptVars, perfVars>>

\* test_throughput_flood: if not self.axiom_path: return
ThroughputNoExecutable ==
    /\ prog = "perf" /\ t_pc = "throughput"
    /\ axiom_path = "None"
    /\ t_pc' = "concurrency"
    /\ UNCHANGED <<prog, matlabVars, launched, qaVars, daemonVars, secVars, guiVars,
                   files, executable_path, scriptVars, perfVars>>

\* initial_memory = process.memory_info().rss
ThroughputStart ==
    /\ prog = "perf" /\ t_pc = "throughput"
    /\ axiom_path # "None"
    /\ initial_memory' = rss
    /\ t_pc' = "flood"
    /\ UNCHANGED <<prog, matlabVars, launched, qaVars, daemonVars, secVars, guiVars,
                   files, executable_path, scriptVars, lat_i, thr_i, leak, rss, growth>>

\* one turn of `for i in range(10)`: the result is not looked at, an
\* exception of subprocess.run records FAIL - e
ThroughputInvoke ==
    /\ prog = "perf" /\ t_pc = "flood"
    /\ thr_i < ThroughputRuns
    /\ \E kind \in {"exit", "timeout", "exception"} :
         IF kind = "exit"
         THEN /\ thr_i' = thr_i + 1
              /\ results' = results
              /\ t_pc' = t_pc
         ELSE /\ thr_i' = thr_i
              /\ results' = Record("throughput",
                                   FailWith(HelpExcMsg([kind |-> kind])))
              /\ t_pc' = "concurrency"
    /\ rss' = rss + leak
    /\ growth' = [growth EXCEPT !.throughput = @ + leak]
    /\ launched' = launched \cup {On("main", RunLaunch("throughput", ThroughputTimeout))}
    /\ UNCHANGED <<prog, matlabVars, axiom_path, daemonVars, secVars, guiVars,
                   files, executable_path, scriptVars, lat_i, leak, initial_memory>>

\* after the loop: memory_growth = final_memory - initial_memory and the verdict
ThroughputEnd ==
    /\ prog = "perf" /\ t_pc = "flood"
    /\ thr_i = ThroughputRuns
    /\ results' = Record("throughput", ThroughputVerdict(rss - initial_memory))
    /\ t_pc' = "concurrency"
    /\ UNCHANGED <<prog, matlabVars, launched, axiom_path, daemonVars, secVars, guiVars,
                   files, executable_path, scriptVars, perfVars>>

NextPerf ==
    \/ LatencyNoExecutable
    \/ LatencyInvoke
    \/ LatencyEnd
    \/ ThroughputNoExecutable
    \/ ThroughputStart
    \/ ThroughputInvoke
    \/ ThroughputEnd

SpecPerf == InitPerf /\ [][NextPerf]_vars

-----------------------------------------------------------------------------
(* section_3_functional_audit: test_symbolic_core, test_linear_algebra, *)
(* test_precision_check                                                  *)

\* timeout=5 of the three invocations
AuditTimeout == 5

\* What the standard output of an invocation of "2 * 3" may be, as characters
LinearStdouts ==
    { <<"6">>,
      <<"1", "6">>,
      <<"R", "e", "s", "u", "l", "t", ":", " ", "6", "\n">>,
      <<"5">>,
      <<"s", "i", "x">>,
      <<>> }

\* How subprocess.run([axiom_path, "2 * 3"], capture_output=True, text=True,
\* timeout=5) ends: an exit with what was written, TimeoutExpired whatever
\* was written before, a failure to start
LinearOutcomes ==
    [kind : {"exit"}, rc : ReturnCodes, stdout : LinearStdouts, stderr : {<<>>}]
      \cup [kind : {"timeout"}, rc : {0}, stdout : LinearStdouts, stderr : {<<>>}]
      \cup [kind : {"exception"}, rc : {0}, stdout : {<<>>}, stderr : {<<>>}]

\* (mutant) the return code has to be 0 as well
SixInStdoutAndExitZero(o) == o.rc = 0 /\ Contains(o.stdout, <<"6">>)

\* "6" in result.stdout
SixInStdout(o) == Contains(o.stdout, <<"6">>)

\* what test_linear_algebra records for an invocation that ended as o
LinearVerdict(o) ==
    IF o.kind = "exit"
    THEN (IF SixInStdout(o) THEN PASS ELSE FAIL)
    ELSE FailWith(HelpExcMsg(o))

\* "PARTIAL" if symbolic_working else "FAIL", symbolic_working set by a return code of 0
SymbolicVerdict(o) ==
    IF o.kind = "exit" /\ o.rc = 0 THEN <<"PARTIAL">> ELSE FAIL

\* what test_precision_check records
PrecisionVerdict(o) ==
    IF o.kind = "exit"
    THEN (IF o.rc = 0 THEN PASS ELSE FAIL)
    ELSE FailWith(HelpExcMsg(o))

\* the QA suite after __init__, about to run section 3
InitAudit ==
    /\ prog = "audit"
    /\ launched = {}
    /\ MatlabIdle
    /\ results = NoResults
    /\ files \in ScriptFileSystems
    /\ axiom_path = find_axiom_executable(files, possible_paths)
    /\ DaemonIdle
    /\ SecIdle
    /\ GuiIdle
    /\ t_pc = "symbolic"
    /\ executable_path = "None"
    /\ ScriptIdle
    /\ PerfIdle

\* test_symbolic_core: if not self.axiom_path: return
SymbolicNoExecutable ==
    /\ prog = "audit" /\ t_pc = "symbolic"
    /\ axiom_path = "None"
    /\ t_pc' = "linear_algebra"
    /\ UNCHANGED <<prog, matlabVars, launched, qaVars, daemonVars, secVars, guiVars,
                   files, executable_path, scriptVars, perfVars>>

\* test_symbolic_core with an executable: its one test case
SymbolicCore ==
    /\ prog = "audit" /\ t_pc = "symbolic"
    /\ axiom_path # "None"
    /\ \E o \in RunOutcomes : results' = Record("symbolic", SymbolicVerdict(o))
    /\ launched' = launched \cup {On("main", RunLaunch("symbolic", AuditTimeout))}
    /\ t_pc' = "linear_algebra"
    /\ UNCHANGED <<prog, matlabVars, axiom_path, daemonVars, secVars, guiVars,
                   files, executable_path, scriptVars, perfVars>>

\* test_linear_algebra: if not self.axiom_path: return
LinearNoExecutable ==
    /\ prog = "audit" /\ t_pc = "linear_algebra"
    /\ axiom_path = "None"
    /\ t_pc' = "precision"
    /\ UNCHANGED <<prog, matlabVars, launched, qaVars, daemonVars, secVars, guiVars,
                   files, executable_path, scriptVars, perfVars>>

\* test_linear_algebra with an executable: the invocation of "2 * 3", then
\* what is recorded
LinearAlgebra ==
    /\ prog = "audit" /\ t_pc = "linear_algebra"
    /\ axiom_path # "None"
    /\ \E o \in LinearOutcomes :
         /\ help_out' = o
         /\ results' = Record("linear_algebra", LinearVerdict(o))
    /\ launched' = launched \cup {On("main", RunLaunch("linear_algebra", AuditTimeout))}
    /\ t_pc' = "precision"
    /\ UNCHANGED <<prog, matlabVars, axiom_path, daemonVars, secVars, guiVars,
                   files, executable_path, checks_made, exit_code, score, perfVars>>

\* test_precision_check: it does not test axiom_path, subprocess.run raises
\* when it is None
PrecisionCheck ==
    /\ prog = "audit" /\ t_pc = "precision"
    /\ \E o \in RunOutcomes :
         /\ axiom_path = "None" => o.kind = "exception"
         /\ results' = Record("precision", PrecisionVerdict(o))
    /\ launched' = IF axiom_path = "None" THEN launched
                   ELSE launched \cup {On("main", RunLaunch("precision", AuditTimeout))}
    /\ t_pc' = "section_4"
    /\ UNCHANGED <<prog, matlabVars, axiom_path, daemonVars, secVars, guiVars,
                   files, executable_path, scriptVars, perfVars>>

NextAudit ==
    \/ SymbolicNoExecutable
    \/ SymbolicCore
    \/ LinearNoExecutable
    \/ LinearAlgebra
    \/ PrecisionCheck

SpecAudit == InitAudit /\ [][NextAudit]_vars

-----------------------------------------------------------------------------
(* generate_report, called with whatever the sections that ran have recorded *)

\* The texts a check can have recorded, NotRecorded when it did not run or
\* returned before recording
RecordableTexts ==
    [NoResults EXCEPT
        !["binary_identity"] = {NotRecorded, PASS, FAIL, FailWith("OSError")},
        !["throughput"] = {NotRecorded, PASS, <<"WARN", "-", "Memory", "growth">>,
                           FailWith("OSError")},
        !["concurrency"] = {NotRecorded, <<"NOT_IMPLEMENTED">>},
        !["symbolic"] = {NotRecorded, <<"PARTIAL">>, FAIL},
        !["linear_algebra"] = {NotRecorded, PASS, FAIL, FailWith("TimeoutExpired")},
        !["precision"] = {NotRecorded, PASS, FAIL},
        !["buffer_overflow"] = {NotRecorded, PASS, <<"PASS", "-", "Timeout">>,
                                <<"FAIL", "-", "Crash">>},
        !["daemon_handshake"] = {NotRecorded},
        !["namespace_purity"] = {NotRecorded},
        !["latency"] = {NotRecorded},
        !["fuzzing"] = {NotRecorded}]

\* a suite about to call generate_report
InitReport ==
    /\ prog = "report"
    /\ launched = {}
    /\ TestIdle
    /\ MatlabIdle
    /\ \E b \in RecordableTexts["binary_identity"], th \in RecordableTexts["throughput"],
          c \in RecordableTexts["concurrency"], sy \in RecordableTexts["symbolic"],
          l \in RecordableTexts["linear_algebra"], pr \in RecordableTexts["precision"],
          bo \in RecordableTexts["buffer_overflow"] :
         results = [NoResults EXCEPT !["binary_identity"] = b, !["throughput"] = th,
                                     !["concurrency"] = c, !["symbolic"] = sy,
                                     !["linear_algebra"] = l, !["precision"] = pr,
                                     !["buffer_overflow"] = bo]
    /\ axiom_path \in {"None", "build/axiom.exe"}
    /\ DaemonIdle
    /\ GuiIdle
    /\ s_pc = "report"
    /\ fuzz_i = 0
    /\ crashes = 0
    /\ neg_seen = FALSE
    /\ buf_outcome = NoOutcome
    /\ total_tests = 0
    /\ passed_tests = 0
    /\ failed_tests = 0
    /\ overall_status = "UNKNOWN"

NextReport == GenerateReport

SpecReport == InitReport /\ [][NextReport]_vars

-----------------------------------------------------------------------------
(* The three programs together *)

Init == InitDaemon \/ InitSec \/ InitGui

Next == NextDaemon \/ NextSec \/ NextGui

Spec == Init /\ [][Next]_vars

-----------------------------------------------------------------------------
(* Claims about the daemon handshake *)

InReadLoop == d_pc \in {"loop", "read", "loop_sleep"}

\* C4 (as claimed): the read loop of the daemon handshake ends by its fixed
\* timeout whatever the daemon does: the handshake is never inside the loop
\* more than ReadTimeout seconds after start_time.
C4_HandshakeEndsByTimeout ==
    (prog = "daemon" /\ InReadLoop) => now - start_time <= ReadTimeout

\* C5 (as claimed): what the handshake writes to the daemon's standard input
\* is the expression 2+2 followed by a newline character.
C5_CommandNewlineTerminated ==
    (prog = "daemon" /\ stdin_written # <<>>) => stdin_written = <<"2", "+", "2", "\n">>

\* C10: the handshake consumes the daemon's output one character at a time, in
\* order; once the buffer contains the sentinel the loop is left and nothing
\* after the sentinel is consumed, so the buffer is the answer followed by the
\* sentinel; PASS is recorded if and only if the sentinel is in the buffer.
C10_ReadStopsAtSentinel ==
    prog = "daemon" =>
      /\ reads = Len(response)
      /\ response = SubSeq(daemon_out, 1, Len(response))
      /\ Contains(response, Sentinel) =>
           /\ EndsWith(response, Sentinel)
           /\ ~Contains(SubSeq(response, 1, Len(response) - 1), Sentinel)
           /\ d_pc \in {"terminate", "done"}
      /\ d_pc = "done" =>
           (results["daemon_handshake"] = PASS <=> Contains(response, Sentinel))

\* C10 witness: PASS recorded with the answer and the sentinel in the buffer
\* while output written after the sentinel is still unread in the pipe.
C10_Witness ==
    /\ prog = "daemon" /\ d_pc = "done"
    /\ results["daemon_handshake"] = PASS
    /\ response = <<"4", "\n">> \o Sentinel
    /\ pipe # <<>>

-----------------------------------------------------------------------------
(* Claims about the security section and the report *)

FuzzingOver == s_pc \in {"buffer", "report", "done"}

\* C8 (as claimed): test_fuzzing records PASS if and only if no invocation
\* ended with a negative return code, and every input of the list is tried.
C8_FuzzPassIffNoNegative ==
    (prog = "sec" /\ FuzzingOver) =>
      /\ results["fuzzing"] = PASS <=> ~neg_seen
      /\ fuzz_i = Len(malicious_inputs)

\* C8 (amended): when an executable was found, test_fuzzing tries every input
\* and records PASS if and only if no invocation ended with a negative return
\* code (a FAIL text otherwise); when none was found it tries no input and
\* records nothing.
C8_FuzzPassIffNoNegativeWhenFound ==
    (prog = "sec" /\ FuzzingOver) =>
      IF axiom_path = "None"
      THEN fuzz_i = 0 /\ results["fuzzing"] = NotRecorded
      ELSE /\ fuzz_i = Len(malicious_inputs)
           /\ results["fuzzing"] = PASS <=> ~neg_seen
           /\ results["fuzzing"] # PASS => Contains(results["fuzzing"], <<"FAIL">>)

\* C8 witness: one invocation crashed and all ten inputs were still tried.
C8_Witness ==
    /\ prog = "sec" /\ s_pc = "buffer"
    /\ neg_seen /\ crashes = 1
    /\ fuzz_i = Len(malicious_inputs)
    /\ results["fuzzing"] = <<"FAIL", "-", "1", "crashes">>

\* C9: test_buffer_overflow records a passing text when the process exits with
\* a return code >= 0 or times out, FAIL - Crash exactly when the return code
\* is negative, and the report counts a timeout among the passed tests.
C9_BufferTimeoutPasses ==
    (prog = "sec" /\ buf_outcome.kind # "none") =>
      /\ (buf_outcome.kind = "exit" /\ buf_outcome.rc >= 0) =>
           results["buffer_overflow"] = PASS
      /\ buf_outcome.kind = "timeout" =>
           results["buffer_overflow"] = <<"PASS", "-", "Timeout">>
      /\ results["buffer_overflow"] = <<"FAIL", "-", "Crash">>
           <=> (buf_outcome.kind = "exit" /\ buf_outcome.rc < 0)
      /\ (s_pc = "done" /\ buf_outcome.kind = "timeout") =>
           passed_tests =
             1 + Cardinality({t \in TestNames \ {"buffer_overflow"} :
                                Contains(results[t], <<"PASS">>)})

\* C9 witness: the long input timed out and the report is made.
C9_Witness ==
    /\ prog = "sec" /\ s_pc = "done"
    /\ buf_outcome.kind = "timeout"
    /\ results["buffer_overflow"] = <<"PASS", "-", "Timeout">>
    /\ passed_tests >= 1

-----------------------------------------------------------------------------
(* Claims about the calculator shell *)

\* C1 (as claimed): every widget update of the calculator shell is made on the
\* UI thread; no background worker configures or writes a widget itself,
\* whatever command the user typed, 'mode <name>' included.
C1_WidgetsOnUiThread ==
    prog = "gui" => \A w \in widget_writes : w.thread = "ui"

\* C2 (as claimed): no two concurrently running operations contend for the
\* same attribute of the shell: no attribute is written by a background worker
\* that has not ended while another thread that has not ended, worker or UI,
\* reads or writes it.
C2_NoContention ==
    prog = "gui" =>
      \A a \in Workers : \A b \in Running \ {a} :
        Writes(a) \cap (Reads(b) \cup Writes(b)) = {}

\* a command that was handled, evaluated outside the REPL mode, not special,
\* with the engine unavailable or its invocation failed
FallbackCase(i) ==
    /\ cmds[i].pc = "handled"
    /\ ~cmds[i].repl
    /\ ~IsSpecial(cmds[i].cmd)
    /\ cmds[i].engine \in {"unavailable", "failed"}

ErrorLines(i) == {k \in 1..Len(cmds[i].lines) : cmds[i].lines[k].label = "error"}

ResultShown(i) ==
    /\ Len(cmds[i].lines) = 1
    /\ cmds[i].lines[1].label # "error"
    /\ cmds[i].lines[1].text = cmds[i].fb_text

Bounded(l) == l.sync /\ l.timeout > 0

C7_EveryCommandHandledOnce ==
    prog = "gui" =>
      /\ \A i \in 1..Len(cmds) :
           (cmds[i].via = "thread" /\ cmds[i].pc # "start") =>
             /\ cmds[i].scheduled = 1
             /\ cmds[i].handled = IF cmds[i].pc = "handled" THEN 1 ELSE 0
      /\ ~ /\ status = "Executing..."
           /\ ui_queue = <<>>
           /\ Running = {}
           /\ cmds # <<>>

\* C11: in the calculator shell no external process is launched on the UI
\* thread: the engine, the builds and pip are run by background workers,
\* however the operation was triggered (Execute, a mode button, Build Engine,
\* Install Packages).
C11_NoLaunchOnUiThread ==
    prog = "gui" => \A l \in launched : l.thread = "worker"

\* C11 witness: a mode button was pressed (execute_command_thread ran on the UI
\* thread) and a typed command had the engine launched.
C11_Witness ==
    /\ prog = "gui"
    /\ \E i \in 1..Len(cmds) : cmds[i].via = "button" /\ cmds[i].pc = "handled"
    /\ \E l \in launched : l.site = "engine"

\* the command cmds'[i] is run in this step: execute_command_thread is gone
\* through for it, by its thread or by a mode button's handler
Ran(i) ==
    /\ cmds'[i].pc \in {"queued", "dead"}
    /\ \/ i > Len(cmds)
       \/ cmds[i].pc \in {"start", "handled", "dead"} /\ cmds'[i] # cmds[i]

\* the typed forms of python, py, repl and of exit(), quit(), exit, quit
EnterForms == {"python", "py", "repl", "PY"}
LeaveForms == {"exit()", "quit()", "exit", "quit", "QUIT"}

\* C12: the REPL mode is a two-state machine: run in calculator mode, a command
\* sets python_repl_mode exactly when it is python, py or repl in any case; run
\* in REPL mode, a command clears it exactly when it is exit(), quit(), exit or
\* quit in any case; every other command, succeeding or failing, and every
\* step that runs no command leave the flag as it was.
C12_ReplTwoStateMachine ==
    [][Shell =>
         /\ \A i \in 1..Len(cmds') :
              Ran(i) =>
                python_repl_mode' =
                  IF python_repl_mode THEN cmds'[i].cmd \notin LeaveForms
                  ELSE cmds'[i].cmd \in EnterForms
         /\ (\A i \in 1..Len(cmds') : ~Ran(i)) => python_repl_mode' = python_repl_mode]_vars

\* C12 witness: QUIT was run in REPL mode, which an earlier command had
\* entered, and the shell is back in calculator mode.
C12_Witness ==
    /\ prog = "seq"
    /\ cmds # <<>>
    /\ cmds[1].cmd = "QUIT" /\ cmds[1].repl /\ cmds[1].pc = "handled"
    /\ ~python_repl_mode

\* what handle_command_result was scheduled with in this step
Scheduled == ui_queue'[Len(ui_queue')].result

\* the effect of 'mode <a>' as claimed: a name sets current_mode to its label
\* and succeeds, anything else fails with 'Unknown mode' and changes nothing
ModeEffect(a) ==
    /\ ui_queue' # <<>>
    /\ IF a \in ModeNames
       THEN current_mode' = mode_map[a] /\ Scheduled.success
       ELSE /\ current_mode' = current_mode
            /\ ~Scheduled.success
            /\ Scheduled.error = "Unknown mode"

FallbackApplied(i) == cmds[i].pc # "start" /\ cmds[i].fb # "not_called"

\* C14 (as claimed): the fallback evaluator never propagates an exception: for
\* every command it is applied to it returns, with success and the result as
\* text or with failure and the error message.
C14_FallbackNeverRaises ==
    Shell =>
      \A i \in 1..Len(cmds) :
        FallbackApplied(i) =>
          /\ cmds[i].fb \in {"ok", "failed"}
          /\ LET r == python_math_fallback(cmds[i].cmd) IN
             IF r.success THEN r.error = "" ELSE r.text = "" /\ r.error # ""

-----------------------------------------------------------------------------
(* Claims about the MATLAB-alternative shell *)

\* C15 (as claimed): a matrix assignment in MATLAB syntax, rows separated by
\* ';' and elements by blanks, binds the variable to the matrix with one row
\* per group and reports no 'Matrix error': 'A = [1 2; 3 4]' leaves
\* workspace_vars[A] = [[1,2],[3,4]].
C15_MatrixAssignment ==
    (/\ prog = "matlab"
     /\ command_output # <<>>
     /\ command_output[1] = Out("normal", "A = [1 2; 3 4]")) =>
      /\ HasKey(workspace_vars, "A")
      /\ Get(workspace_vars, "A") = NdArray(<<<<1, 2>>, <<3, 4>>>>)
      /\ \A k \in 1..Len(command_output) : command_output[k].what # "Matrix error"

\* the panel lists exactly the entries of workspace_vars, a row per name
PanelShowsWorkspace == workspace_tree = Names(workspace_vars)

\* C16 (as claimed): after any sequence of commands and button presses the
\* workspace panel lists exactly the entries of workspace_vars, one row per
\* variable name.
C16_PanelShowsWorkspace ==
    prog = "matlab" => PanelShowsWorkspace

-----------------------------------------------------------------------------
(* Claims about the REPL's names *)

\* C17: with the commands executed one at a time, a name bound by a successful
\* statement in REPL mode stays bound through every later step, leaving the
\* REPL mode with exit() and entering it again included, and a later REPL
\* command that uses it sees it: after x = 10, x * 2 is displayed as 20.
C17_ReplNamesPersist ==
    /\ [][Shell =>
            /\ python_globals \subseteq python_globals'
            /\ \A i \in 1..Len(cmds') :
                 (Ran(i) /\ python_repl_mode /\ cmds'[i].cmd = "x = 10") =>
                   "x" \in python_globals']_vars
    /\ [](Shell =>
            \A i \in 1..Len(cmds) :
              (/\ cmds[i].cmd = "x * 2" /\ cmds[i].repl /\ cmds[i].pc = "handled"
               /\ "x" \in python_globals) =>
                cmds[i].lines = <<Line("python", "20")>>)

\* C17 witness: x * 2 was run in REPL mode with x bound and 20 is displayed.
C17_Witness ==
    /\ prog = "seq"
    /\ "x" \in python_globals
    /\ cmds # <<>>
    /\ cmds[1].cmd = "x * 2" /\ cmds[1].repl /\ cmds[1].pc = "handled"
    /\ cmds[1].lines = <<Line("python", "20")>>

-----------------------------------------------------------------------------
(* Claims about executable probing *)

\* the place of a path in a list, 0 when it is not in it
IndexOf(paths, p) ==
    IF \E k \in 1..Len(paths) : paths[k] = p
    THEN CHOOSE k \in 1..Len(paths) : paths[k] = p
    ELSE 0

\* found is what probing the list on the file system fs has to return: None
\* exactly when no candidate exists, else a candidate that exists with no
\* existing candidate before it
FirstThatExists(found, paths, fs) ==
    IF \A k \in 1..Len(paths) : paths[k] \notin fs
    THEN found = "None"
    ELSE /\ found # "None"
         /\ IndexOf(paths, found) > 0
         /\ found \in fs
         /\ \A k \in 1..(IndexOf(paths, found) - 1) : paths[k] \notin fs

\* C20: executable probing returns the first path of the fixed candidate list
\* that exists on the file system, returns None exactly when no candidate
\* exists, and never returns a path outside the list -- for the QA suite's
\* find_axiom_executable and for the shell's find_cpp_executable.
C20_ProbingReturnsFirstExisting ==
    /\ (prog = "probe" /\ t_pc = "qa_probed") =>
           FirstThatExists(axiom_path, possible_paths, files)
    /\ (prog = "probe" /\ t_pc = "cpp_probed") =>
           FirstThatExists(executable_path,
                           [k \in 1..Len(cpp_possible_paths) |-> Str(cpp_possible_paths[k])],
                           files)

\* the QA suite probed a file system where a later candidate exists
\* together with an earlier one and with a path of no list: the earlier is returned
C20_Witness ==
    /\ prog = "probe" /\ t_pc = "qa_probed"
    /\ {"build/axiom.exe", "axiom", "bin/axiom.exe"} \subseteq files
    /\ axiom_path = "build/axiom.exe"

-----------------------------------------------------------------------------
(* Claims about the binary-identity check *)

\* the --help invocation returned and its standard output holds the string
HelpIdentifies ==
    /\ help_out.kind = "exit"
    /\ Contains(help_out.stdout, <<"AXIOM", "Engine", "v3.0">>)

\* C18: the binary-identity check passes if and only if the standard output
\* of the --help invocation contains 'AXIOM Engine v3.0'.  In the QA suite a
\* missing string or an exception records a result that starts with FAIL;
\* in core_architecture_test it ends the run with exit status 1 and none of
\* the further checks made.
C18_BinaryIdentity ==
    /\ (prog = "identity" /\ t_pc = "handshake") =>
           /\ (results["binary_identity"] = PASS) <=> HelpIdentifies
           /\ ~HelpIdentifies => Head(results["binary_identity"]) = "FAIL"
    /\ (prog = "core" /\ help_out.kind # "none") =>
           IF HelpIdentifies
           THEN t_pc = "exited" => checks_made = 3
           ELSE t_pc = "exited" /\ exit_code = 1 /\ checks_made = 0

\* the string was written to standard error only by an executable that
\* exited with 0, and the QA suite recorded FAIL
C18_Witness ==
    /\ prog = "identity" /\ t_pc = "handshake"
    /\ help_out.kind = "exit" /\ help_out.rc = 0
    /\ help_out.stdout = <<>>
    /\ help_out.stderr = <<"AXIOM", "Engine", "v3.0">>
    /\ results["binary_identity"] = FAIL

-----------------------------------------------------------------------------
(* Claims about the performance section *)

\* the latency check recorded a pass
LatencyPassed ==
    /\ prog = "perf"
    /\ results["latency"] # NotRecorded
    /\ Head(results["latency"]) = "PASS"

\* C19 (as stated): the check that invokes a trivial expression 100 times is
\* the one that bounds memory growth -- its recorded result is a pass only
\* if the resident set of the test process grew by less than the bound over
\* those 100 invocations.
C19_LatencyBoundsMemory ==
    LatencyPassed => growth.latency < 100

\* C19 (amended): the check that bounds memory growth is the throughput
\* check, over its 10 invocations of 'linear': it records PASS only if the
\* resident set grew by less than 100 MB over them and WARN - Memory growth
\* only if it grew by at least that; the check of 100 invocations records a
\* pass only after all 100 succeeded, whatever the growth.
C19_ThroughputBoundsMemory ==
    /\ (prog = "perf" /\ results["throughput"] = <<"PASS">>) =>
           thr_i = 10 /\ growth.throughput < 100
    /\ (prog = "perf" /\ results["throughput"] = <<"WARN", "-", "Memory", "growth">>) =>
           thr_i = 10 /\ growth.throughput >= 100
    /\ LatencyPassed => lat_i = 100

\* both checks ran to their end: the resident set grew by 200 MB over the
\* 100 invocations and by 20 MB over the 10, and both recorded a pass
C19_Witness ==
    /\ prog = "perf" /\ t_pc = "concurrency"
    /\ LatencyPassed
    /\ growth.latency = 200
    /\ growth.throughput = 20
    /\ results["throughput"] = <<"PASS">>

-----------------------------------------------------------------------------
(* Claims about the functional audit *)

\* the invocation of "2 * 3" returned and its standard output holds a 6
LinearOutputHasSix ==
    /\ help_out.kind = "exit"
    /\ \E k \in 1..Len(help_out.stdout) : help_out.stdout[k] = "6"

-----------------------------------------------------------------------------
(* Claims about the report's counts *)

\* the word w is in the text
HasWord(text, w) == \E k \in 1..Len(text) : text[k] = w

\* the results that were recorded
RecordedTests == {t \in DOMAIN results : results[t] # <<>>}

\* C22: after generate_report every recorded result is counted once in the
\* total; passed counts the results whose text contains PASS, failed those
\* that contain FAIL and no PASS, the others (WARN, PARTIAL, NOT_IMPLEMENTED)
\* are in neither, so passed + failed <= total; the overall status is SUCCESS
\* iff passed/total >= 80%, PARTIAL SUCCESS iff it is at least 60% and under
\* 80%, FAILURE otherwise, also when nothing was recorded.
C22_ReportCounts ==
    (prog \in {"sec", "report"} /\ s_pc = "done") =>
        /\ total_tests = Cardinality(RecordedTests)
        /\ passed_tests = Cardinality({t \in RecordedTests : HasWord(results[t], "PASS")})
        /\ failed_tests = Cardinality({t \in RecordedTests :
                               ~HasWord(results[t], "PASS") /\ HasWord(results[t], "FAIL")})
        /\ passed_tests + failed_tests <= total_tests
        /\ (overall_status = "SUCCESS") <=>
               (total_tests > 0 /\ passed_tests * 100 >= 80 * total_tests)
        /\ (overall_status = "PARTIAL SUCCESS") <=>
               (total_tests > 0 /\ passed_tests * 100 >= 60 * total_tests
                                /\ passed_tests * 100 < 80 * total_tests)
        /\ (overall_status = "FAILURE") <=>
               (total_tests = 0 \/ passed_tests * 100 < 60 * total_tests)

\* five results, four of them passes (one a PASS - Timeout) and one a
\* warning: exactly 80%, reported as SUCCESS with passed + failed < total
C22_Witness ==
    /\ prog = "report" /\ s_pc = "done"
    /\ total_tests = 5 /\ passed_tests = 4 /\ failed_tests = 0
    /\ results["throughput"] = <<"WARN", "-", "Memory", "growth">>
    /\ results["buffer_overflow"] = <<"PASS", "-", "Timeout">>
    /\ overall_status = "SUCCESS"

-----------------------------------------------------------------------------
(* Claims about the fast local evaluation *)

\* the typed commands that match one of the four patterns, and those of them
\* that Python evaluates without an exception
MatchesSimplePattern(c) == c \in {"2+3", "1/0", "2**3"}
EvaluatesLocally(c) == c \in {"2+3", "2**3"}

\* cmds[i] was evaluated outside REPL mode
EvaluatedAsMath(i) ==
    /\ cmds[i].pc \in {"queued", "handled"}
    /\ ~cmds[i].repl

\* C23: outside REPL mode, for a command that matches the simple-arithmetic
\* patterns and whose local evaluation succeeds, the engine is never invoked
\* (no process is launched by the step that runs it) and the line displayed
\* is the fast local evaluation; the engine is tried for a command that
\* matches the patterns only when its local evaluation failed.
C23_FastLocalEvaluation ==
    /\ [](\A i \in 1..Len(cmds) :
            (EvaluatedAsMath(i) /\ MatchesSimplePattern(cmds[i].cmd)) =>
               IF EvaluatesLocally(cmds[i].cmd)
               THEN /\ cmds[i].engine = "skipped"
                    /\ cmds[i].fb = "ok"
                    /\ cmds[i].pc = "handled" =>
                          /\ Len(cmds[i].lines) = 1
                          /\ cmds[i].lines[1].label = "fast"
                          /\ cmds[i].lines[1].text = cmds[i].fb_text
               ELSE /\ cmds[i].fb = "failed"
                    /\ cmds[i].engine \in {"ok", "failed", "unavailable"})
    /\ [][\A i \in 1..Len(cmds') :
            (Ran(i) /\ ~python_repl_mode /\ EvaluatesLocally(cmds'[i].cmd)
                    /\ MatchesSimplePattern(cmds'[i].cmd))
               => launched' = launched]_vars

\* with the engine available, 2**3 was evaluated locally and shown as a fast
\* evaluation, and no engine process was ever launched
C23_Witness ==
    /\ prog = "seq"
    /\ engine_available /\ cpp_engine # "None"
    /\ launched = {}
    /\ \E i \in 1..Len(cmds) :
         /\ cmds[i].cmd = "2**3"
         /\ cmds[i].pc = "handled"
         /\ cmds[i].engine = "skipped"
         /\ cmds[i].lines = <<[label |-> "fast", text |-> "8"]>>

-----------------------------------------------------------------------------
(* Claims about commands submitted while others are in flight *)

\* python_repl_mode after the first k submitted commands, had they been run
\* one after the other in the order of submission
RECURSIVE ReplAfter(_)
ReplAfter(k) ==
    IF k = 0 THEN FALSE
    ELSE LET before == ReplAfter(k - 1)
             c == cmds[k].cmd
         IN  IF ~before /\ c \in EnterForms THEN TRUE
             ELSE IF before /\ c \in LeaveForms THEN FALSE
             ELSE before

\* C24: when several commands are submitted before earlier ones have
\* finished, their results are handled in the order of submission (a result
\* is handled only after those of all commands submitted before it), and
\* each command is evaluated in the mode, calculator or REPL, that results
\* from all commands submitted before it.
C24_SubmissionOrder ==
    \A j \in 1..Len(cmds) :
        /\ cmds[j].handled > 0 =>
              \A i \in 1..(j - 1) : cmds[i].handled > 0 \/ cmds[i].pc = "dead"
        /\ cmds[j].pc \in {"queued", "handled"} => cmds[j].repl = ReplAfter(j - 1)

-----------------------------------------------------------------------------
(* Claims about the progress indicator *)

\* the commands submitted with Execute whose result has not been handled yet
InFlight ==
    {i \in 1..Len(cmds) : cmds[i].via = "thread" /\ cmds[i].pc \in {"start", "queued"}}

\* C25: as long as at least one submitted command has not yet had its result
\* handled, the progress indicator is running and the status has not been
\* reset to 'Ready' by the completion of another command.
C25_ProgressWhileInFlight ==
    (prog = "gui" /\ InFlight # {}) =>
        /\ progress_running
        /\ status # "Ready"

-----------------------------------------------------------------------------
(* Claims about the daemon left behind *)

\* the handshake has returned and had started a daemon
ReturnedAfterStart ==
    /\ prog = "daemon"
    /\ d_pc = "done"
    /\ \E l \in launched : l.site = "daemon_handshake"

\* C26: on every path through test_daemon_handshake on which the daemon was
\* started, the paths where writing to or reading from it raises included,
\* the daemon has exited or has been sent terminate when the function
\* returns: no daemon is left running.
C26_NoDaemonLeftRunning ==
    ReturnedAfterStart => daemon_state \in {"exited", "terminated"}

=============================================================================
